---------------------------- MODULE Spec2Model ----------------------------
(***************************************************************************)
(* A model of the robottelo page objects and CLI wrappers:                 *)
(*   - RHCI._page_review_deployment, the wizard-completion wait            *)
(*     (src/robottelo/ui/rhci.py),                                         *)
(*   - GPGKey.exists / GPGKey.list (src/robottelo/cli/gpgkey.py),          *)
(*   - the content operations of src/lib/content.py,                       *)
(*   - RHCI.create, the walk through the pages of the wizard               *)
(*     (src/robottelo/ui/rhci.py),                                         *)
(*   - the data functions of src/robottelo/datafactory.py.                 *)
(* Each part has its own specification; the variables of the other parts   *)
(* stay at their initial values.                                           *)
(***************************************************************************)
EXTENDS Integers, Sequences, FiniteSets, TLC

VARIABLES
    \* ---- RHCI._page_review_deployment ----
    pc,         \* position in _page_review_deployment
    n,          \* iterations of "for __ in range(240)" started so far
    attempts,   \* the local variable attempts
    success,    \* the local variable success
    net,        \* the browser's refresh behaviour during this run (environment)
    ev,         \* the last driver call / sleep / raise performed
    clicks,     \* self.click(locators["rhci.next"]) calls so far
    okClicks,   \* ... of which returned without raising
    refreshes,  \* self.browser.refresh() calls so far
    tries,      \* self.browser.refresh() calls since the last click
    naps,       \* sleep(15) calls since the last click
    slept,      \* seconds slept so far
    raised,     \* how often "raise Exception(...)" of line 264 ran
    escaped,    \* the failure that left the method: "none" when none did
    \* ---- GPGKey (the hammer server and the last call made) ----
    gpgKeys,     \* the GPG keys the server holds, in the order it lists them
    command_sub, \* the class attribute cls.command_sub
    gpgOp,       \* the last call made: "none", "list" or "exists"
    gpgOptions,  \* the options mapping handed to _construct_command by it
    gpgListed,   \* the result cls.list returned within it
    gpgResult,   \* the result it returned to its caller
    gpgFixture,  \* the records of the table the server printed for it
    gpgCall,     \* the arguments it was called with and the command line it ran
    \* ---- content (one call of one operation of src/lib/content.py) ----
    ctOp,        \* the operation called, its force and its type argument
    ctPc,        \* the statement of its body that runs next
    ctEnv,       \* its local variables (and those of select_content_provider)
    ctCalls,     \* the driver calls made so far, in order
    ctErr,       \* the exception that left the operation: "none" when none did
    ctFaults,    \* the exceptions raised within it so far, caught or not, in order
    \* ---- RHCI.create (one call) ----
    wzArgs,      \* the arguments of the call that the walk depends on
    wzPc,        \* the statement of lines 52-81 that runs next: 0 before the call
    wzPages,     \* the page methods entered so far, in order
    wzCalls,     \* what the page method entered last did, in order
    wzErr,       \* the exception that left create: "none" when none did
    wzAdvanced,  \* for each page method entered: the clicks on Next it made
    \* ---- datafactory (one call of a data function) ----
    dfOne,       \* settings.run_one_datapoint
    dfFunc,      \* the data function called: "none" before the call
    dfArgs,      \* its arguments
    dfNames,     \* what the invalid_names_list() of line 122/124 returned to it
    dfDataset,   \* what the function returned to the wrapper of datacheck
    dfResult,    \* what the wrapper returned to the caller
    dfErr        \* the exception that left the call: "none" when none did

waitVars == <<pc, n, attempts, success, net, ev, clicks, okClicks, refreshes, tries,
              naps, slept, raised, escaped>>

gpgVars == <<gpgKeys, command_sub, gpgOp, gpgOptions, gpgListed, gpgResult,
             gpgFixture, gpgCall>>

ctVars == <<ctOp, ctPc, ctEnv, ctCalls, ctErr, ctFaults>>

wzVars == <<wzArgs, wzPc, wzPages, wzCalls, wzErr, wzAdvanced>>

dfVars == <<dfOne, dfFunc, dfArgs, dfNames, dfDataset, dfResult, dfErr>>

vars == <<waitVars, gpgVars, ctVars, wzVars, dfVars>>

\* What the steps of the wizard-completion wait leave alone.
notWait == <<gpgVars, ctVars, wzVars, dfVars>>

\* What the calls of GPGKey leave alone.
notGpg == <<waitVars, ctVars, wzVars, dfVars>>

\* What the steps of a content operation leave alone.
notContent == <<waitVars, gpgVars, wzVars, dfVars>>

\* What the steps of RHCI.create leave alone.
notWizard == <<waitVars, gpgVars, ctVars, dfVars>>

\* What the calls of the data functions leave alone.
notData == <<waitVars, gpgVars, ctVars, wzVars>>

-----------------------------------------------------------------------------
(* RHCI._page_review_deployment                                            *)

\* range(240) of the polling loop
MaxOuter == 240
\* "while attempts < 40"
MaxRefresh == 40
\* sleep(90)
SleepPoll == 90
\* sleep(15)
SleepRefresh == 15

\* The refresh behaviours the browser is run with.  Each gives, for the outer
\* attempt a, the number of refresh calls that fail before one succeeds; a
\* number >= MaxRefresh means no refresh of that attempt succeeds within the
\* budget of the inner loop.
RefreshScripts == {"up", "once", "five", "last", "down", "alt", "ramp"}

FailsBefore(s, a) ==
    CASE s = "up"   -> 0
      [] s = "once" -> 1
      [] s = "five" -> 5
      [] s = "last" -> MaxRefresh - 1
      [] s = "down" -> MaxRefresh + 1
      [] s = "alt"  -> IF a % 2 = 1 THEN 0 ELSE MaxRefresh + 1
      [] s = "ramp" -> (a - 1) % (MaxRefresh + 2)

\* The outcome of the k-th refresh call of outer attempt a.
RefreshSucceeds(s, a, k) == k > FailsBefore(s, a)

InitWait ==
    /\ pc = "deploy"
    /\ n = 0
    /\ attempts = 0
    /\ success = FALSE
    /\ net \in RefreshScripts
    /\ ev = "none"
    /\ clicks = 0
    /\ okClicks = 0
    /\ refreshes = 0
    /\ tries = 0
    /\ naps = 0
    /\ slept = 0
    /\ raised = 0
    /\ escaped = "none"

\* Mutant of DeployClick: a failure of the click is swallowed.
DeployClick_Swallowed ==
    /\ UNCHANGED notWait
    /\ pc = "deploy"
    /\ pc' = "for"
    /\ \E ok \in BOOLEAN : ev' = IF ok THEN "deploy" ELSE "deploy_fail"
    /\ UNCHANGED <<n, attempts, success, net, clicks, okClicks, refreshes, tries, naps,
                   slept, raised, escaped>>

\* line 243: self.click(locators["rhci.deploy"], timeout=300); not in a try,
\* so a failure of this click leaves the method.
DeployClick ==
    /\ UNCHANGED notWait
    /\ pc = "deploy"
    /\ \E ok \in BOOLEAN :
          IF ok
          THEN /\ pc' = "for"
               /\ ev' = "deploy"
               /\ escaped' = escaped
          ELSE /\ pc' = "Aborted"
               /\ ev' = "deploy_fail"
               /\ escaped' = "DeployClick"
    /\ UNCHANGED <<n, attempts, success, net, clicks, okClicks, refreshes, tries, naps,
                   slept, raised>>

\* Mutant of ForNext: the loop runs one iteration more than range(240) has.
ForNext_OneMore ==
    /\ UNCHANGED notWait
    /\ pc = "for"
    /\ n <= MaxOuter
    /\ n' = n + 1
    /\ pc' = "sleep90"
    /\ UNCHANGED <<attempts, success, net, ev, clicks, okClicks, refreshes, tries, naps,
                   slept, raised, escaped>>

\* line 247: the loop takes its next value from range(240) ...
ForNext ==
    /\ UNCHANGED notWait
    /\ pc = "for"
    /\ n < MaxOuter
    /\ n' = n + 1
    /\ pc' = "sleep90"
    /\ UNCHANGED <<attempts, success, net, ev, clicks, okClicks, refreshes, tries, naps,
                   slept, raised, escaped>>

\* Mutant of RaiseExhausted: the budget is taken to be used up one iteration
\* early.
RaiseExhausted_OffByOne ==
    /\ UNCHANGED notWait
    /\ pc = "for"
    /\ n >= MaxOuter - 1
    /\ pc' = "Exhausted"
    /\ raised' = raised + 1
    /\ escaped' = "Exhausted"
    /\ ev' = "raise"
    /\ UNCHANGED <<n, attempts, success, net, clicks, okClicks, refreshes, tries, naps,
                   slept>>

\* lines 263-264: ... or range(240) is used up and the else clause raises.
RaiseExhausted ==
    /\ UNCHANGED notWait
    /\ pc = "for"
    /\ n >= MaxOuter
    /\ pc' = "Exhausted"
    /\ raised' = raised + 1
    /\ escaped' = "Exhausted"
    /\ ev' = "raise"
    /\ UNCHANGED <<n, attempts, success, net, clicks, okClicks, refreshes, tries, naps,
                   slept>>

\* line 248: sleep(90)
Sleep90 ==
    /\ UNCHANGED notWait
    /\ pc = "sleep90"
    /\ slept' = slept + SleepPoll
    /\ ev' = "sleep90"
    /\ pc' = "click"
    /\ UNCHANGED <<n, attempts, success, net, clicks, okClicks, refreshes, tries, naps,
                   raised, escaped>>

\* Mutant of ClickNext: the break after the click is missing.
ClickNext_NoBreak ==
    /\ UNCHANGED notWait
    /\ pc = "click"
    /\ clicks' = clicks + 1
    /\ tries' = 0
    /\ naps' = 0
    /\ \E ok \in BOOLEAN :
          IF ok
          THEN /\ pc' = "for"
               /\ ev' = "click_ok"
               /\ okClicks' = okClicks + 1
               /\ UNCHANGED <<attempts, success>>
          ELSE /\ pc' = "while"
               /\ ev' = "click_fail"
               /\ okClicks' = okClicks
               /\ success' = FALSE
               /\ attempts' = 0
    /\ UNCHANGED <<n, net, refreshes, slept, raised, escaped>>

\* Mutant of ClickNext: the except clause only passes, without the refresh.
ClickNext_NoRefresh ==
    /\ UNCHANGED notWait
    /\ pc = "click"
    /\ clicks' = clicks + 1
    /\ tries' = 0
    /\ naps' = 0
    /\ \E ok \in BOOLEAN :
          IF ok
          THEN /\ pc' = "Completed"
               /\ ev' = "click_ok"
               /\ okClicks' = okClicks + 1
               /\ UNCHANGED <<attempts, success>>
          ELSE /\ pc' = "for"
               /\ ev' = "click_fail"
               /\ okClicks' = okClicks
               /\ success' = FALSE
               /\ attempts' = 0
    /\ UNCHANGED <<n, net, refreshes, slept, raised, escaped>>

\* Mutant of ClickNext: the last iteration of the loop does not refresh
\* after its failed click.
ClickNext_LastNoRefresh ==
    /\ UNCHANGED notWait
    /\ pc = "click"
    /\ clicks' = clicks + 1
    /\ tries' = 0
    /\ naps' = 0
    /\ \E ok \in BOOLEAN :
          IF ok
          THEN /\ pc' = "Completed"
               /\ ev' = "click_ok"
               /\ okClicks' = okClicks + 1
               /\ UNCHANGED <<attempts, success>>
          ELSE /\ pc' = IF n = MaxOuter THEN "for" ELSE "while"
               /\ ev' = "click_fail"
               /\ okClicks' = okClicks
               /\ success' = FALSE
               /\ attempts' = 0
    /\ UNCHANGED <<n, net, refreshes, slept, raised, escaped>>

\* lines 249-254: try: click; break / except: success = False; attempts = 0
ClickNext ==
    /\ UNCHANGED notWait
    /\ pc = "click"
    /\ clicks' = clicks + 1
    /\ tries' = 0
    /\ naps' = 0
    /\ \E ok \in BOOLEAN :
          IF ok
          THEN /\ pc' = "Completed"
               /\ ev' = "click_ok"
               /\ okClicks' = okClicks + 1
               /\ UNCHANGED <<attempts, success>>
          ELSE /\ pc' = "while"
               /\ ev' = "click_fail"
               /\ okClicks' = okClicks
               /\ success' = FALSE
               /\ attempts' = 0
    /\ UNCHANGED <<n, net, refreshes, slept, raised, escaped>>

\* Mutant of WhileTest: "attempts <= 40".
WhileTest_OffByOne ==
    /\ UNCHANGED notWait
    /\ pc = "while"
    /\ pc' = IF attempts <= MaxRefresh /\ ~success THEN "refresh" ELSE "for"
    /\ UNCHANGED <<n, attempts, success, net, ev, clicks, okClicks, refreshes, tries,
                   naps, slept, raised, escaped>>

\* line 255: while attempts < 40 and not success
WhileTest ==
    /\ UNCHANGED notWait
    /\ pc = "while"
    /\ pc' = IF attempts < MaxRefresh /\ ~success THEN "refresh" ELSE "for"
    /\ UNCHANGED <<n, attempts, success, net, ev, clicks, okClicks, refreshes, tries,
                   naps, slept, raised, escaped>>

\* Mutant of Refresh: a failed refresh is counted but not followed by the
\* sleep.
Refresh_NoBackoff ==
    /\ UNCHANGED notWait
    /\ pc = "refresh"
    /\ refreshes' = refreshes + 1
    /\ tries' = tries + 1
    /\ IF RefreshSucceeds(net, n, tries + 1)
       THEN /\ success' = TRUE
            /\ ev' = "refresh_ok"
            /\ attempts' = attempts
       ELSE /\ success' = success
            /\ ev' = "refresh_fail"
            /\ attempts' = attempts + 1
    /\ pc' = "while"
    /\ UNCHANGED <<n, net, clicks, okClicks, naps, slept, raised, escaped>>

\* Mutant of Refresh: the refresh is not in a try, its failure leaves the
\* method.
Refresh_Propagates ==
    /\ UNCHANGED notWait
    /\ pc = "refresh"
    /\ refreshes' = refreshes + 1
    /\ tries' = tries + 1
    /\ IF RefreshSucceeds(net, n, tries + 1)
       THEN /\ success' = TRUE
            /\ ev' = "refresh_ok"
            /\ pc' = "while"
            /\ escaped' = escaped
       ELSE /\ success' = success
            /\ ev' = "refresh_fail"
            /\ pc' = "Aborted"
            /\ escaped' = "RefreshFailed"
    /\ UNCHANGED <<n, attempts, net, clicks, okClicks, naps, slept, raised>>

\* lines 256-259: try: self.browser.refresh(); success = True / except:
\* Mutant of Refresh: the sleep follows every refresh, also a successful one.
Refresh_AlwaysBackoff ==
    /\ UNCHANGED notWait
    /\ pc = "refresh"
    /\ refreshes' = refreshes + 1
    /\ tries' = tries + 1
    /\ IF RefreshSucceeds(net, n, tries + 1)
       THEN /\ success' = TRUE
            /\ ev' = "refresh_ok"
            /\ pc' = "sleep15"
       ELSE /\ success' = success
            /\ ev' = "refresh_fail"
            /\ pc' = "sleep15"
    /\ UNCHANGED <<n, attempts, net, clicks, okClicks, naps, slept, raised, escaped>>

Refresh ==
    /\ UNCHANGED notWait
    /\ pc = "refresh"
    /\ refreshes' = refreshes + 1
    /\ tries' = tries + 1
    /\ IF RefreshSucceeds(net, n, tries + 1)
       THEN /\ success' = TRUE
            /\ ev' = "refresh_ok"
            /\ pc' = "while"
       ELSE /\ success' = success
            /\ ev' = "refresh_fail"
            /\ pc' = "sleep15"
    /\ UNCHANGED <<n, attempts, net, clicks, okClicks, naps, slept, raised, escaped>>

\* Mutant of Sleep15: the back-off sleeps as long as the polling sleep.
Sleep15_Long ==
    /\ UNCHANGED notWait
    /\ pc = "sleep15"
    /\ slept' = slept + SleepPoll
    /\ naps' = naps + 1
    /\ attempts' = attempts + 1
    /\ ev' = "sleep15"
    /\ pc' = "while"
    /\ UNCHANGED <<n, success, net, clicks, okClicks, refreshes, tries, raised, escaped>>

\* lines 260-262: sleep(15); attempts += 1
Sleep15 ==
    /\ UNCHANGED notWait
    /\ pc = "sleep15"
    /\ slept' = slept + SleepRefresh
    /\ naps' = naps + 1
    /\ attempts' = attempts + 1
    /\ ev' = "sleep15"
    /\ pc' = "while"
    /\ UNCHANGED <<n, success, net, clicks, okClicks, refreshes, tries, raised, escaped>>

NextWait ==
    \/ DeployClick
    \/ ForNext
    \/ RaiseExhausted
    \/ Sleep90
    \/ ClickNext
    \/ WhileTest
    \/ Refresh
    \/ Sleep15

-----------------------------------------------------------------------------
(* GPGKey.exists and GPGKey.list                                           *)

\* The most GPG keys the server is given.
MaxKeys == 3

\* Names keys are created with, names searched for, organizations.
KeyNames == {"k1", "k2"}
SearchNames == KeyNames \cup {"k9"}
Orgs == {1, 2}

\* A Python dict is a function from its keys; {} is the empty function.
EmptyDict == <<>>
DictSet(d, k, v) == [x \in DOMAIN d \cup {k} |-> IF x = k THEN v ELSE d[x]]

\* The options argument of list: None, or a dict.
OptNone == [none |-> TRUE, map |-> EmptyDict]
Opt(m) == [none |-> FALSE, map |-> m]

\* result.stdout is a list of records, or (after exists) one record.
Rows(rs) == [kind |-> "rows", val |-> rs]
OneRow(r) == [kind |-> "row", val |-> r]

\* "%s:\"%s\"" % (tuple_search[0], tuple_search[1])
SearchCriteria(tuple_search) ==
    <<tuple_search[1], ":\"", tuple_search[2], "\"">>

\* What the server reads out of a search criteria.
CriteriaField(sc) == sc[1]
CriteriaValue(sc) == sc[3]

\* Text is a sequence of pieces: words, and the separators among them.
\* "%s" % i for a number: its decimal digits.
RECURSIVE Decimal(_)
Decimal(i) ==
    LET digit == <<"0", "1", "2", "3", "4", "5", "6", "7", "8", "9">>[(i % 10) + 1]
    IN  IF i < 10 THEN <<digit>> ELSE Append(Decimal(i \div 10), digit)

\* The pieces of the text s between the separators d, in order.
RECURSIVE Split(_, _)
Split(s, d) ==
    IF \A i \in DOMAIN s : s[i] # d
    THEN <<s>>
    ELSE LET i == CHOOSE j \in DOMAIN s :
                     s[j] = d /\ \A k \in 1..(j - 1) : s[k] # d
         IN  <<SubSeq(s, 1, i - 1)>> \o Split(SubSeq(s, i + 1, Len(s)), d)

\* The texts ss with the separator d between them.
RECURSIVE Join(_, _)
Join(ss, d) ==
    IF ss = <<>> THEN <<>>
    ELSE IF Len(ss) = 1 THEN ss[1]
    ELSE ss[1] \o <<d>> \o Join(Tail(ss), d)

\* The columns of the table the server prints for GPG keys.
KeyColumns == <<"ID", "Name">>

\* The record the server prints for a key: a cell of text for each column.
KeyRow(k) == [ID |-> Decimal(k.id), Name |-> <<k.name>>]

\* The table the server prints for records: a line of column names, then a
\* line for each record, the cells of a line separated by commas.
PrintCsv(columns, rows) ==
    Join(<<Join([i \in DOMAIN columns |-> <<columns[i]>>], ",")>>
         \o [r \in DOMAIN rows |->
                Join([i \in DOMAIN columns |-> rows[r][columns[i]]], ",")],
         "\n")

\* Mutant of ParseCsv: the line of column names is taken for a record too.
ParseCsv_KeepsHeader(text) ==
    LET lines == Split(text, "\n")
        headers == Split(lines[1], ",")
        Cells(l) == Split(lines[l], ",")
    IN  [l \in 1..Len(lines) |->
            [h \in {headers[i][1] : i \in DOMAIN headers} |->
                Cells(l)[CHOOSE i \in DOMAIN headers : headers[i][1] = h]]]

\* Base.execute with expect_csv: stdout is read as delimited tabular text,
\* the first line naming the columns, and decoded into one record for each
\* further line, in order.
ParseCsv(text) ==
    LET lines == Split(text, "\n")
        headers == Split(lines[1], ",")
        Cells(l) == Split(lines[l + 1], ",")
    IN  [l \in 1..(Len(lines) - 1) |->
            [h \in {headers[i][1] : i \in DOMAIN headers} |->
                Cells(l)[CHOOSE i \in DOMAIN headers : headers[i][1] = h]]]

\* "--key='value'": the flag of one entry of the options.
Flag(key, val) ==
    <<"--", key, "='">>
    \o (IF key \in {"organization-id", "per-page"} THEN Decimal(val) ELSE val)
    \o <<"'">>

\* What the server reads out of a flag.
FlagKey(flag) == flag[2]
FlagValue(flag) == SubSeq(flag, 4, Len(flag) - 1)

\* Base._construct_command: the command line of the options, a flag for
\* each entry.
ConstructCommand(sub, options) ==
    [base |-> "gpg", sub |-> sub,
     tail |-> {Flag(key, options[key]) : key \in DOMAIN options}]

\* Whether the server lists key k for a command.
Listed(k, command) ==
    /\ \E f \in command.tail :
          FlagKey(f) = "organization-id" /\ FlagValue(f) = Decimal(k.org)
    /\ \A f \in command.tail :
          FlagKey(f) = "search" =>
              /\ CriteriaField(FlagValue(f)) = "name"
              /\ k.name = CriteriaValue(FlagValue(f))

\* The records of the keys the server lists for a command, in its order.
ServerRows(command) ==
    LET Match(k) == Listed(k, command)
        found == SelectSeq(gpgKeys, Match)
    IN  [i \in 1..Len(found) |-> KeyRow(found[i])]

\* Base.execute(command, expect_csv=True): the table the server prints for
\* the command, parsed into records; up is whether the command succeeds.
Execute(command, up) ==
    IF up
    THEN LET printed == PrintCsv(KeyColumns, ServerRows(command))
         IN  [return_code |-> 0,
              stdout |-> Rows(ParseCsv(printed)),
              stderr |-> "none"]
    ELSE [return_code |-> 1, stdout |-> Rows(<<>>), stderr |-> "error"]

\* Mutant of ListOptions: an organization-id the caller's options hold is
\* kept.
ListOptions_KeepsCallerOrg(organization_id, options) ==
    LET given == IF options.none
                 THEN DictSet(EmptyDict, "per-page", 10000)
                 ELSE options.map
    IN  IF "organization-id" \in DOMAIN given
        THEN given
        ELSE DictSet(given, "organization-id", organization_id)

\* lines 65-70: the options list hands to _construct_command
ListOptions(organization_id, options) ==
    LET given == IF options.none
                 THEN DictSet(EmptyDict, "per-page", 10000)
                 ELSE options.map
    IN  DictSet(given, "organization-id", organization_id)

\* lines 57-74
List(organization_id, options, up) ==
    Execute(ConstructCommand("list", ListOptions(organization_id, options)), up)

\* lines 43-47: the options exists hands to list; tuple_search is <<>> when
\* it is None or empty
ExistsOptions(tuple_search) ==
    IF tuple_search # <<>>
    THEN Opt(DictSet(EmptyDict, "search", SearchCriteria(tuple_search)))
    ELSE Opt(EmptyDict)

\* Mutant of Exists: the last record of the list is taken, not the first.
Exists_Last(organization_id, tuple_search, up) ==
    LET result == List(organization_id, ExistsOptions(tuple_search), up)
    IN  IF result.stdout.val # <<>>
        THEN [result EXCEPT !.stdout =
                 OneRow(result.stdout.val[Len(result.stdout.val)])]
        ELSE result

\* lines 36-55
Exists(organization_id, tuple_search, up) ==
    LET result == List(organization_id, ExistsOptions(tuple_search), up)
    IN  IF result.stdout.val # <<>>
        THEN [result EXCEPT !.stdout = OneRow(result.stdout.val[1])]
        ELSE result

NoResult == [return_code |-> 0, stdout |-> Rows(<<>>), stderr |-> "none"]

\* A call as recorded: its arguments (tuple_search is <<>> for list, options
\* is what exists hands to list) and the command line executed.
Call(organization_id, options, tuple_search) ==
    [organization_id |-> organization_id,
     options |-> options,
     tuple_search |-> tuple_search,
     command |-> ConstructCommand("list", ListOptions(organization_id, options))]

NoCall ==
    [organization_id |-> 0, options |-> OptNone, tuple_search |-> <<>>,
     command |-> [base |-> "gpg", sub |-> "None", tail |-> {}]]

InitGpg ==
    /\ gpgKeys = <<>>
    /\ command_sub = "None"
    /\ gpgOp = "none"
    /\ gpgOptions = EmptyDict
    /\ gpgListed = NoResult
    /\ gpgResult = NoResult
    /\ gpgFixture = <<>>
    /\ gpgCall = NoCall

\* The server is given one more key (by a create command).
ServerAddKey ==
    /\ UNCHANGED notGpg
    /\ Len(gpgKeys) < MaxKeys
    /\ \E nm \in KeyNames, o \in Orgs :
          gpgKeys' = Append(gpgKeys,
                            [id |-> Len(gpgKeys) + 1, name |-> nm, org |-> o])
    /\ UNCHANGED <<command_sub, gpgOp, gpgOptions, gpgListed, gpgResult, gpgFixture,
                   gpgCall>>

\* The options callers hand to list.
ListInputs ==
    {OptNone, Opt(EmptyDict),
     Opt(DictSet(EmptyDict, "organization-id", 2)),
     Opt(DictSet(EmptyDict, "per-page", 20)),
     Opt(DictSet(EmptyDict, "search", SearchCriteria(<<"name", "k1">>)))}

\* A call GPGKey.list(organization_id, options)
CallList ==
    /\ UNCHANGED notGpg
    /\ \E o \in Orgs, options \in ListInputs, up \in BOOLEAN :
          /\ command_sub' = "list"
          /\ gpgOp' = "list"
          /\ gpgOptions' = ListOptions(o, options)
          /\ gpgListed' = List(o, options, up)
          /\ gpgResult' = List(o, options, up)
          /\ gpgFixture' = IF up
                           THEN ServerRows(ConstructCommand("list", ListOptions(o, options)))
                           ELSE <<>>
          /\ gpgCall' = Call(o, options, <<>>)
    /\ UNCHANGED gpgKeys

\* The tuple_search arguments callers hand to exists (<<>>: none).
SearchInputs == {<<>>} \cup {<<"name", v>> : v \in SearchNames}

\* A call GPGKey.exists(organization_id, tuple_search)
CallExists ==
    /\ UNCHANGED notGpg
    /\ \E o \in Orgs, tuple_search \in SearchInputs, up \in BOOLEAN :
          /\ command_sub' = "list"
          /\ gpgOp' = "exists"
          /\ gpgOptions' = ListOptions(o, ExistsOptions(tuple_search))
          /\ gpgListed' = List(o, ExistsOptions(tuple_search), up)
          /\ gpgResult' = Exists(o, tuple_search, up)
          /\ gpgFixture' =
                IF up
                THEN ServerRows(ConstructCommand("list",
                                    ListOptions(o, ExistsOptions(tuple_search))))
                ELSE <<>>
          /\ gpgCall' = Call(o, ExistsOptions(tuple_search), tuple_search)
    /\ UNCHANGED gpgKeys

NextGpg ==
    \/ ServerAddKey
    \/ CallList
    \/ CallExists

-----------------------------------------------------------------------------
(* The content operations of src/lib/content.py                            *)
(*                                                                         *)
(* The body of an operation is its sequence of statements; a statement is  *)
(*   op   what it does,                                                    *)
(*   var  the local variable it assigns, tests or calls a method of,       *)
(*   arg  the locator waited for, or the variable or text handed over,     *)
(*   left inside the try of select_content_provider: the statements of the *)
(*        try that follow it; -1 outside that try,                         *)
(*   typ  inside that try: the content provider type.                      *)

\* The content provider types (the words "x in content_provider_type" of
\* lines 55-59 finds in them).
CUSTOM_PROVIDERS == {"custom"}
REDHAT_PROVIDERS == {"redhat"}
NoType == {}

\* Values of the local variables: a string, an element, None, an object that
\* is no element, or not assigned yet.  src tells where a value is from.
Str(x) == [t |-> "str", v |-> x, src |-> "arg"]
Elem(loc, src) == [t |-> "elem", v |-> loc, src |-> src]
None(loc, src) == [t |-> "none", v |-> loc, src |-> src]
Obj(x) == [t |-> "obj", v |-> x, src |-> "new"]
Unbound == [t |-> "unbound", v |-> "", src |-> ""]
Url(u) == [t |-> "url", v |-> u, src |-> "driver"]

\* Arguments of a statement: a variable, or a text.
Var(x) == [k |-> "var", v |-> x]
Txt(x) == [k |-> "txt", v |-> x]

Ins(op, var, arg) ==
    [op |-> op, var |-> var, arg |-> arg, left |-> -1, typ |-> NoType]
TryIns(op, var, arg, left, typ) ==
    [op |-> op, var |-> var, arg |-> arg, left |-> left, typ |-> typ]

\* lines 38-66: the statements of select_content_provider, the try of lines
\* 45-51 being its last six.
SelectContentProvider(typ) ==
    << Ins("wait", "select.content_provider_link", Txt("SUB_HEADER_CONTENT_PROVIDER")),
       TryIns("move_to_element", "select.hover", Var("select.content_provider_link"), 5, typ),
       TryIns("fail_if_none", "select.hover", Txt("Failed to move the mouse"), 4, typ),
       TryIns("perform", "select.hover", Var("select.content_provider_link"), 3, typ),
       TryIns("wait", "select.provider", Txt("PROVIDER"), 2, typ),
       TryIns("fail_if_none", "select.provider", Txt("Could not locate the content provider type."), 1, typ),
       TryIns("click", "select.provider", Txt(""), 0, typ) >>

\* Mutant of AddCustomProvider: the name is looked up only after the
\* New-provider link was clicked.
AddCustomProvider_CheckLate ==
    << Ins("tab", "", Txt("HEADER_CONTENT_MANAGEMENT")) >>
    \o SelectContentProvider(CUSTOM_PROVIDERS) \o
    << Ins("wait", "new_provider_link", Txt("//a[@id='new']")),
       Ins("fail_if_none", "new_provider_link", Txt("Failed to locate the New Provider link.")),
       Ins("click", "new_provider_link", Txt("")),
       Ins("lookup", "provider", Var("provider_name")),
       Ins("fail_unless_none", "provider", Txt("Found a provider with that name already.")),
       Ins("wait", "provider_name", Txt("PROVIDER_NAME_FIELD")),
       Ins("fail_if_none", "provider_name", Txt("Failed to locate the provider Name field.")),
       Ins("send_keys", "provider_name", Var("provider_name")),
       Ins("wait", "provider_description", Txt("PROVIDER_DESCRIPTION_FIELD")),
       Ins("fail_if_none", "provider_description", Txt("Failed to locate the provider Description field.")),
       Ins("send_keys", "provider_description", Txt("Automatically created by Robottelo.")),
       Ins("wait", "provider_save", Txt("PROVIDER_SAVE_BUTTON")),
       Ins("fail_if_none", "provider_save", Txt("Could not locate the Save button.")),
       Ins("click", "provider_save", Txt("")),
       Ins("lookup", "provider", Var("provider_name")),
       Ins("fail_if_none", "provider", Txt("Could not locate the provider.")) >>

\* lines 112-143
AddCustomProvider ==
    << Ins("tab", "", Txt("HEADER_CONTENT_MANAGEMENT")) >>
    \o SelectContentProvider(CUSTOM_PROVIDERS) \o
    << Ins("lookup", "provider", Var("provider_name")),
       Ins("fail_unless_none", "provider", Txt("Found a provider with that name already.")),
       Ins("wait", "new_provider_link", Txt("//a[@id='new']")),
       Ins("fail_if_none", "new_provider_link", Txt("Failed to locate the New Provider link.")),
       Ins("click", "new_provider_link", Txt("")),
       Ins("wait", "provider_name", Txt("PROVIDER_NAME_FIELD")),
       Ins("fail_if_none", "provider_name", Txt("Failed to locate the provider Name field.")),
       Ins("send_keys", "provider_name", Var("provider_name")),
       Ins("wait", "provider_description", Txt("PROVIDER_DESCRIPTION_FIELD")),
       Ins("fail_if_none", "provider_description", Txt("Failed to locate the provider Description field.")),
       Ins("send_keys", "provider_description", Txt("Automatically created by Robottelo.")),
       Ins("wait", "provider_save", Txt("PROVIDER_SAVE_BUTTON")),
       Ins("fail_if_none", "provider_save", Txt("Could not locate the Save button.")),
       Ins("click", "provider_save", Txt("")),
       Ins("lookup", "provider", Var("provider_name")),
       Ins("fail_if_none", "provider", Txt("Could not locate the provider.")) >>

\* Mutant of DeleteCustomProvider: the provider is not looked up again after
\* the confirmation.
DeleteCustomProvider_NoRecheck ==
    << Ins("tab", "", Txt("HEADER_CONTENT_MANAGEMENT")) >>
    \o SelectContentProvider(CUSTOM_PROVIDERS) \o
    << Ins("lookup", "provider", Var("provider_name")),
       Ins("fail_if_none", "provider", Txt("Could not locate the provider.")),
       Ins("click", "provider", Txt("")),
       Ins("wait", "remove_link", Txt("PROVIDER_REMOVE_LINK")),
       Ins("click", "remove_link", Txt("")),
       Ins("wait", "yes_button", Txt("YES_BUTTON")),
       Ins("fail_if_none", "yes_button", Txt("Could not find the Yes button to remove role.")),
       Ins("click", "yes_button", Txt("")) >>
    \o SelectContentProvider(CUSTOM_PROVIDERS)

\* lines 146-172
DeleteCustomProvider ==
    << Ins("tab", "", Txt("HEADER_CONTENT_MANAGEMENT")) >>
    \o SelectContentProvider(CUSTOM_PROVIDERS) \o
    << Ins("lookup", "provider", Var("provider_name")),
       Ins("fail_if_none", "provider", Txt("Could not locate the provider.")),
       Ins("click", "provider", Txt("")),
       Ins("wait", "remove_link", Txt("PROVIDER_REMOVE_LINK")),
       Ins("click", "remove_link", Txt("")),
       Ins("wait", "yes_button", Txt("YES_BUTTON")),
       Ins("fail_if_none", "yes_button", Txt("Could not find the Yes button to remove role.")),
       Ins("click", "yes_button", Txt("")) >>
    \o SelectContentProvider(CUSTOM_PROVIDERS) \o
    << Ins("lookup", "provider", Var("provider_name")),
       Ins("fail_unless_none", "provider", Txt("Found a provider with that name already.")) >>

\* lines 175-207
AddProductToProvider ==
    << Ins("tab", "", Txt("HEADER_CONTENT_MANAGEMENT")) >>
    \o SelectContentProvider(CUSTOM_PROVIDERS) \o
    << Ins("lookup", "provider", Var("provider_name")),
       Ins("fail_if_none", "provider", Txt("Could not locate the provider.")),
       Ins("click", "provider", Txt("")),
       Ins("lookup", "product", Var("product_name")),
       Ins("fail_unless_none", "product", Txt("Found a provider with that name already.")),
       Ins("wait", "add_product_button", Txt("NEW_PRODUCT_BUTTON")),
       Ins("fail_if_none", "add_product_button", Txt("Could not locate the Add Product button.")),
       Ins("click", "add_product_button", Txt("")),
       Ins("wait", "product_name_field", Txt("PRODUCT_NAME_FIELD")),
       Ins("send_keys", "product_name_field", Var("product_name")),
       Ins("wait", "product_description_field", Txt("PRODUCT_DESCRIPTION_FIELD")),
       Ins("send_keys", "product_description_field", Txt("Automatically created by Robottelo.")),
       Ins("wait", "create_button", Txt("PRODUCT_SAVE_BUTTON")),
       Ins("click", "create_button", Txt("")),
       Ins("lookup", "product", Var("product_name")),
       Ins("fail_if_none", "product", Txt("Could not locate the product.")) >>

\* lines 210-239
DeleteProductFromProvider ==
    << Ins("tab", "", Txt("HEADER_CONTENT_MANAGEMENT")) >>
    \o SelectContentProvider(CUSTOM_PROVIDERS) \o
    << Ins("lookup", "provider", Var("provider_name")),
       Ins("fail_if_none", "provider", Txt("Could not locate the provider.")),
       Ins("click", "provider", Txt("")),
       Ins("lookup", "product", Var("product_name")),
       Ins("fail_if_none", "product", Txt("Could not locate the product.")),
       Ins("click", "product", Txt("")),
       Ins("wait", "remove_link", Txt("PRODUCT_REMOVE_LINK")),
       Ins("fail_if_none", "remove_link", Txt("Failed to locate the Remove Product link.")),
       Ins("click", "remove_link", Txt("")),
       Ins("wait", "yes_button", Txt("YES_BUTTON")),
       Ins("fail_if_none", "yes_button", Txt("Could not find the Yes button to remove role.")),
       Ins("click", "yes_button", Txt("")),
       Ins("lookup", "product", Var("product_name")),
       Ins("fail_unless_none", "product", Txt("Found a provider with that name already.")) >>

\* lines 242-275
RedHatProvider(force) ==
    << Ins("tab", "", Txt("HEADER_CONTENT_MANAGEMENT")) >>
    \o SelectContentProvider(REDHAT_PROVIDERS) \o
    << Ins("get_manifest_file", "manifest_file", Var("manifest")),
       Ins("wait", "manifest_field", Txt("MANIFEST_FILE_FIELD")),
       Ins("fail_if_none", "manifest_field", Txt("Could not locate the manifest field.")),
       Ins("send_keys", "manifest_field", Var("manifest_file")) >>
    \o (IF force
        THEN << Ins("wait", "force_checkbox", Txt("MANIFEST_FORCE_CHECKBOX")),
                Ins("fail_if_none", "force_checkbox", Txt("Could not locate the Force checkbox.")),
                Ins("click", "force_checkbox", Txt("")) >>
        ELSE << >>) \o
    << Ins("wait", "submit_button", Txt("MANIFEST_SAVE_BUTTON")),
       Ins("click", "submit_button", Txt("")),
       Ins("wait", "subscriptions", Txt("SUBSCRIPTIONS")),
       Ins("fail_if_none", "subscriptions", Txt("Could not find a subscription.")) >>

\* lines 278-314
EnableRepository ==
    << Ins("tab", "", Txt("HEADER_CONTENT_MANAGEMENT")) >>
    \o SelectContentProvider(REDHAT_PROVIDERS) \o
    << Ins("wait", "enable_repos_tab", Txt("ENABLE_REPOS_TAB")),
       Ins("fail_if_none", "enable_repos_tab", Txt("Could not locate the Enable Repo tab.")),
       Ins("click", "enable_repos_tab", Txt("")),
       Ins("wait", "product_span", Txt("RHEL_PRODUCT")),
       Ins("fail_if_none", "product_span", Txt("Could not locate the product.")),
       Ins("wait", "product_node", Txt("RHEL_PRODUCT_ID")),
       Ins("get_attribute", "product_node", Txt("id")),
       Ins("click", "product_span", Txt("")),
       Ins("wait", "version_span", Txt("RHEL_PRODUCT_VERSION")),
       Ins("fail_if_none", "version_span", Txt("Could not locate the version.")),
       Ins("click", "version_span", Txt("")),
       Ins("wait", "arch_span", Txt("RHEL_PRODUCT_ARCH")),
       Ins("fail_if_none", "arch_span", Txt("Could not locate the arch.")),
       Ins("click", "arch_span", Txt("")),
       Ins("wait", "repo", Txt("RHEL_PRODUCT_REPO")),
       Ins("fail_if_none", "repo", Txt("Could not locate the repository.")),
       Ins("click", "repo", Txt("")) >>

\* The operations, and the body of each.
ContentOps ==
    {"select_content_provider", "add_custom_provider", "delete_custom_provider",
     "add_product_to_provider", "delete_product_from_provider",
     "red_hat_provider", "enable_repository"}

\* The content provider types select_content_provider is called with: the
\* words of lines 55-59 that the type has in it.
ProviderTypes == SUBSET {"custom", "redhat", "filters"}

Body(o) ==
    CASE o.name = "select_content_provider" -> SelectContentProvider(o.typ)
      [] o.name = "add_custom_provider" -> AddCustomProvider
      [] o.name = "delete_custom_provider" -> DeleteCustomProvider
      [] o.name = "add_product_to_provider" -> AddProductToProvider
      [] o.name = "delete_product_from_provider" -> DeleteProductFromProvider
      [] o.name = "red_hat_provider" -> RedHatProvider(o.force)
      [] o.name = "enable_repository" -> EnableRepository
      [] OTHER -> << >>

\* The local variables of the operations.
CtNames ==
    {"provider_name", "product_name", "manifest", "manifest_file",
     "select.content_provider_link", "select.hover", "select.provider",
     "provider", "product", "new_provider_link", "provider_description",
     "provider_save", "remove_link", "yes_button", "add_product_button",
     "product_name_field", "product_description_field", "create_button",
     "manifest_field", "force_checkbox", "submit_button", "subscriptions",
     "enable_repos_tab", "product_span", "product_node", "version_span",
     "arch_span", "repo"}

\* The locals of an operation as it is entered: its arguments.
CtArgs ==
    [x \in CtNames |->
        CASE x = "provider_name" -> Str("p1")
          [] x = "product_name" -> Str("prod1")
          [] x = "manifest" -> Str("manifest.zip")
          [] OTHER -> Unbound]

\* The statement that runs next, when there is one.
Running == ctErr = "none" /\ ctPc >= 1 /\ ctPc <= Len(Body(ctOp))
Cur == Body(ctOp)[ctPc]

\* The value of a statement's argument.
ArgValue(a) == IF a.k = "var" THEN ctEnv[a.v] ELSE Str(a.v)

\* An exception, as recorded: its class and the statement that raised it.
Fault(exc, at) == [exc |-> exc, at |-> at]

\* A driver call, as recorded.
DriverCall(m, on, arg) == [m |-> m, on |-> on, arg |-> arg]

\* Mutant of FallbackUrl: "redhat" is tested before "custom".
FallbackUrl_RedHatFirst(typ) ==
    IF "redhat" \in typ THEN <<"current_url", "/redhat_provider">>
    ELSE IF "custom" \in typ THEN <<"current_url">>
    ELSE IF "filters" \in typ THEN <<"base_url", "/filters">>
    ELSE <<"base_url", "/gpg_keys">>

\* lines 55-62: where the fallback of select_content_provider navigates to.
FallbackUrl(typ) ==
    IF "custom" \in typ THEN <<"current_url">>
    ELSE IF "redhat" \in typ THEN <<"current_url", "/redhat_provider">>
    ELSE IF "filters" \in typ THEN <<"base_url", "/filters">>
    ELSE <<"base_url", "/gpg_keys">>

InitContent ==
    /\ ctOp = [name |-> "idle", force |-> FALSE, typ |-> NoType]
    /\ ctPc = 0
    /\ ctEnv = << >>
    /\ ctCalls = << >>
    /\ ctErr = "none"
    /\ ctFaults = << >>

\* A test calls one of the operations.
CtCall ==
    /\ UNCHANGED notContent
    /\ ctOp.name = "idle"
    /\ \E o \in ContentOps, f \in BOOLEAN, t \in ProviderTypes :
          /\ o # "red_hat_provider" => f
          /\ o # "select_content_provider" => t = NoType
          /\ ctOp' = [name |-> o, force |-> f, typ |-> t]
    /\ ctPc' = 1
    /\ ctEnv' = CtArgs
    /\ UNCHANGED <<ctCalls, ctErr, ctFaults>>

\* asserts.assert_true(self.go_to_content_tab(), ...)
StepTab ==
    /\ UNCHANGED notContent
    /\ Running
    /\ Cur.op = "tab"
    /\ ctCalls' = Append(ctCalls, DriverCall("select_tab", "", Str(Cur.arg.v)))
    /\ \E ok \in BOOLEAN :
          IF ok
          THEN ctPc' = ctPc + 1 /\ ctErr' = ctErr /\ ctFaults' = ctFaults
          ELSE /\ ctPc' = ctPc
               /\ ctErr' = "AssertionError"
               /\ ctFaults' = Append(ctFaults, Fault("AssertionError", ctPc))
    /\ UNCHANGED <<ctOp, ctEnv>>

\* x = wait_until_element(self.base.driver, locator, By.XPATH): the element,
\* or None when it does not show up in time.
StepWait ==
    /\ UNCHANGED notContent
    /\ Running
    /\ Cur.op = "wait"
    /\ \E found \in BOOLEAN :
          ctEnv' = [ctEnv EXCEPT ![Cur.var] =
                       IF found THEN Elem(Cur.arg.v, "wait")
                       ELSE None(Cur.arg.v, "wait")]
    /\ ctPc' = ctPc + 1
    /\ UNCHANGED <<ctOp, ctCalls, ctErr, ctFaults>>

\* (x, x_id) = self._get_provider_by_name(name) / _get_product_by_name(name),
\* lines 69-109: the element, None when no row has the name, or the driver's
\* NoSuchElementException out of find_element_by_xpath.
StepLookup ==
    /\ UNCHANGED notContent
    /\ Running
    /\ Cur.op = "lookup"
    /\ ctCalls' = Append(ctCalls, DriverCall("find_elements", Cur.var, ArgValue(Cur.arg)))
    /\ \E res \in {"found", "absent", "fault"} :
          /\ ctEnv' = IF res = "fault" THEN ctEnv
                      ELSE [ctEnv EXCEPT ![Cur.var] =
                               IF res = "found" THEN Elem(Cur.var, "lookup")
                               ELSE None(Cur.var, "lookup")]
          /\ ctErr' = IF res = "fault" THEN "NoSuchElementException" ELSE ctErr
          /\ ctFaults' = IF res = "fault"
                         THEN Append(ctFaults, Fault("NoSuchElementException", ctPc))
                         ELSE ctFaults
          /\ ctPc' = IF res = "fault" THEN ctPc ELSE ctPc + 1
    /\ UNCHANGED ctOp

\* manifest_file = get_manifest_file(manifest), line 253, and
\* hover = ActionChains(driver).move_to_element(link), line 46: neither
\* touches the page.
StepBind ==
    /\ UNCHANGED notContent
    /\ Running
    /\ Cur.op \in {"get_manifest_file", "move_to_element"}
    /\ ctEnv' = [ctEnv EXCEPT ![Cur.var] =
                    IF Cur.op = "get_manifest_file"
                    THEN Str("path")
                    ELSE Obj("ActionChains")]
    /\ ctPc' = ctPc + 1
    /\ UNCHANGED <<ctOp, ctCalls, ctErr, ctFaults>>

\* Mutant of AssertFails: fail_if_none only logs, it never raises.
AssertFails_Lenient(ins) ==
    /\ ins.op = "fail_unless_none"
    /\ ctEnv[ins.var].t # "none"

\* Whether asserts.fail_if_none(x, msg) / asserts.fail_unless_none(x, msg)
\* raises.
AssertFails(ins) ==
    \/ ins.op = "fail_if_none" /\ ctEnv[ins.var].t = "none"
    \/ ins.op = "fail_unless_none" /\ ctEnv[ins.var].t # "none"

\* asserts.fail_if_none(x, msg), asserts.fail_unless_none(x, msg): the
\* AssertionError is no WebDriverException, so it leaves the try of
\* select_content_provider as well.
StepAssert ==
    /\ UNCHANGED notContent
    /\ Running
    /\ Cur.op \in {"fail_if_none", "fail_unless_none"}
    /\ IF AssertFails(Cur)
       THEN /\ ctErr' = "AssertionError"
            /\ ctPc' = ctPc
            /\ ctFaults' = Append(ctFaults, Fault("AssertionError", ctPc))
       ELSE ctErr' = ctErr /\ ctPc' = ctPc + 1 /\ ctFaults' = ctFaults
    /\ UNCHANGED <<ctOp, ctEnv, ctCalls>>

ActOps == {"click", "send_keys", "get_attribute", "perform"}

\* line 13: the exception classes of the driver that the module imports and
\* catches; NoSuchElementException is a subclass of WebDriverException.
DriverFaults == {"WebDriverException", "NoSuchElementException"}

\* isinstance(exc, cls), for the exception exc of a driver call.
IsInstance(exc, cls) ==
    \/ exc = cls
    \/ exc = "NoSuchElementException" /\ cls = "WebDriverException"

\* lines 52 and 65: the except clauses of the try of
\* select_content_provider, in the order they are written.
ExceptClauses == <<"WebDriverException", "NoSuchElementException">>

\* The except clause that handles exc: the first one whose class exc is an
\* instance of; 0 when there is none.
Handler(exc) ==
    IF \E i \in DOMAIN ExceptClauses : IsInstance(exc, ExceptClauses[i])
    THEN CHOOSE i \in DOMAIN ExceptClauses :
            /\ IsInstance(exc, ExceptClauses[i])
            /\ \A j \in 1..(i - 1) : ~IsInstance(exc, ExceptClauses[j])
    ELSE 0

\* What a method call on the value x can end with: a method of None is an
\* AttributeError; hover.perform() over a link that is None fails in the
\* driver binding, as an AttributeError or as a WebDriverException; a call
\* that reaches the driver returns or raises one of the driver's
\* exceptions.
ActOutcomes(ins) ==
    IF ctEnv[ins.var].t = "none" THEN {"AttributeError"}
    ELSE IF ins.op = "perform" /\ ArgValue(ins.arg).t = "none"
         THEN {"AttributeError", "WebDriverException"}
         ELSE {"ok"} \cup DriverFaults

\* x.click(), x.send_keys(text), x.get_attribute(name), hover.perform().
\* Inside the try of select_content_provider the exception of the driver
\* goes to the first except clause that matches it.  In the clause of lines
\* 52-64 the driver is sent to the fallback URL and the operation goes on
\* after select_content_provider, unless driver.get raises itself, which
\* no try surrounds; in the clause of lines 65-66 asserts.fail raises the
\* named failure.
StepAct ==
    /\ UNCHANGED notContent
    /\ Running
    /\ Cur.op \in ActOps
    /\ \E res \in ActOutcomes(Cur), nav \in {"ok", "WebDriverException"} :
          CASE res = "ok" ->
                 /\ nav = "ok"
                 /\ ctCalls' = Append(ctCalls, DriverCall(Cur.op, Cur.var, ArgValue(Cur.arg)))
                 /\ ctPc' = ctPc + 1
                 /\ ctErr' = ctErr
                 /\ ctFaults' = ctFaults
            [] res = "AttributeError" ->
                 /\ nav = "ok"
                 /\ ctCalls' = ctCalls
                 /\ ctPc' = ctPc
                 /\ ctErr' = "AttributeError"
                 /\ ctFaults' = Append(ctFaults, Fault("AttributeError", ctPc))
            [] res \in DriverFaults /\ Cur.left >= 0 /\ Handler(res) = 1 ->
                 /\ ctCalls' = ctCalls
                        \o << DriverCall(Cur.op, Cur.var, ArgValue(Cur.arg)),
                              DriverCall("get", "driver", Url(FallbackUrl(Cur.typ))) >>
                 /\ IF nav = "ok"
                    THEN /\ ctPc' = ctPc + Cur.left + 1
                         /\ ctErr' = ctErr
                         /\ ctFaults' = Append(ctFaults, Fault(res, ctPc))
                    ELSE /\ ctPc' = ctPc
                         /\ ctErr' = "WebDriverException"
                         /\ ctFaults' = ctFaults
                                \o << Fault(res, ctPc),
                                      Fault("WebDriverException", ctPc) >>
            [] res \in DriverFaults /\ Cur.left >= 0 /\ Handler(res) = 2 ->
                 /\ nav = "ok"
                 /\ ctCalls' = Append(ctCalls, DriverCall(Cur.op, Cur.var, ArgValue(Cur.arg)))
                 /\ ctPc' = ctPc
                 /\ ctErr' = "AssertionError"
                 /\ ctFaults' = ctFaults
                        \o << Fault(res, ctPc), Fault("AssertionError", ctPc) >>
            [] res \in DriverFaults /\ Cur.left < 0 ->
                 /\ nav = "ok"
                 /\ ctCalls' = Append(ctCalls, DriverCall(Cur.op, Cur.var, ArgValue(Cur.arg)))
                 /\ ctPc' = ctPc
                 /\ ctErr' = res
                 /\ ctFaults' = Append(ctFaults, Fault(res, ctPc))
    /\ UNCHANGED <<ctOp, ctEnv>>

NextContent ==
    \/ CtCall
    \/ StepTab
    \/ StepWait
    \/ StepLookup
    \/ StepBind
    \/ StepAssert
    \/ StepAct

-----------------------------------------------------------------------------
(* RHCI.create of src/robottelo/ui/rhci.py: the walk through the pages     *)

\* The products of the wizard.
ProductNames == {"openstack", "rhev", "cloudforms"}

\* The products argument: a list of products, none of them twice.
ProductLists ==
    {<< >>}
    \cup {<<a>> : a \in ProductNames}
    \cup {<<a, b>> : <<a, b>> \in {x \in ProductNames \X ProductNames : x[1] # x[2]}}
    \cup {<<x[1], x[2], x[3]>> : x \in {y \in ProductNames \X ProductNames \X ProductNames :
                                           Cardinality({y[1], y[2], y[3]}) = 3}}

\* "x in products" of lines 59, 65, 74.
InList(x, list) == \E i \in DOMAIN list : list[i] = x

\* The arguments the walk depends on; the optional ones are given or None.
CreateArgs ==
    [products : ProductLists,
     enable_access_insights : BOOLEAN,
     datacenter_name : {"None", "dc"},
     cluster_name : {"None", "cl"},
     cpu_type : {"None", "cpu"},
     overcloud_nodes : {<<"node1", "node2">>},
     rhevh_macs : {<<"mac1", "mac2">>},
     rhsm_subs : {<<"sub1", "sub2">>}]

\* line 12-17: a locator, and the string interpolated into it ("" for the
\* locators of the registry that take none).
interp_loc(locator_name, interpolate_string) == <<locator_name, interpolate_string>>
locators(locator_name) == <<locator_name, "">>

\* What a page method does: self.click, self.text_field_update,
\* self.wait_until_element (with what it returned: found or None) and
\* self.wait_until_element_is_clickable.
Click(loc) == [m |-> "click", loc |-> loc, found |-> TRUE]
Update(loc) == [m |-> "text_field_update", loc |-> loc, found |-> TRUE]
Wait(loc, found) == [m |-> "wait_until_element", loc |-> loc, found |-> found]
WaitClickable(loc) == [m |-> "wait_until_element_is_clickable", loc |-> loc, found |-> TRUE]

\* "if c: s"
IfSeq(c, s) == IF c THEN s ELSE << >>

\* The concatenation of a sequence of sequences.
RECURSIVE Flatten(_)
Flatten(ss) == IF ss = << >> THEN << >> ELSE Head(ss) \o Flatten(Tail(ss))

\* The page methods.  a is the arguments of create; seen is the set of
\* locators for which self.wait_until_element returns an element during the
\* page (for the others it returns None).

\* lines 83-90
page_software_selection(a, seen) ==
    [i \in 1..Len(a.products) |->
        Click(interp_loc("rhci.product_select", a.products[i]))]
    \o << Click(locators("rhci.select")) >>

\* lines 92-102
page_satellite_configuration(a, seen) ==
    << Wait(locators("rhci.satellite_name"), locators("rhci.satellite_name") \in seen) >>
    \o IfSeq(locators("rhci.satellite_name") \in seen,
             << Update(locators("rhci.satellite_name")),
                Update(locators("rhci.satellite_description")) >>)
    \o << Click(locators("rhci.next")), Click(locators("rhci.next")) >>

\* lines 104-109
page_lifecycle_environment(a, seen) ==
    << Click(interp_loc("rhci.update_lifecycle_select", "update_lifecycle")),
       Click(locators("rhci.next")) >>

\* lines 111-117
page_access_insights(a, seen) ==
    IfSeq(a.enable_access_insights, << Click(locators("rhci.enable_access_insights")) >>)
    \o << Click(locators("rhci.next")) >>

\* lines 119-125
page_discover_undercloud(a, seen) ==
    << Update(locators("rhci.undercloud_ip")),
       Update(locators("rhci.undercloud_ssh_user")),
       Update(locators("rhci.undercloud_ssh_pass")),
       Click(locators("rhci.detect_undercloud")),
       Click(locators("rhci.next")) >>

\* lines 127-141
page_register_nodes(a, seen) ==
    << Click(locators("rhci.register_nodes")) >>
    \o Flatten([node_num \in 1..Len(a.overcloud_nodes) |->
          IfSeq(node_num - 1 > 0, << Click(locators("rhci.node_add_node")) >>)
          \o << Click(locators("rhci.node_driver_select")),
                Click(interp_loc("rhci.node_driver_dropdown_item", a.overcloud_nodes[node_num])),
                Update(locators("rhci.node_ip_address")),
                Update(locators("rhci.node_ipmi_user")),
                Update(locators("rhci.node_ipmi_pass")),
                Update(locators("rhci.node_nic_mac_address")) >>])
    \o << Click(locators("node_register_nodes")),
          WaitClickable(locators("rhci.next")),
          Click(locators("rhci.next")) >>

\* lines 143-146
page_assign_nodes(a, seen) == << Click(locators("rhci.next")) >>

\* lines 148-154
page_rhev_setup_type(a, seen) ==
    LET rhev_setup_loc == interp_loc("rhci.rhev_setup_type", "rhev_setup_type")
    IN  << Wait(rhev_setup_loc, rhev_setup_loc \in seen) >>
        \o (IF rhev_setup_loc \in seen
            THEN << Click(rhev_setup_loc), Click(locators("rhci.next")) >>
            ELSE << Click(locators("rhci.next")) >>)

\* lines 156-159
page_rhev_engine_selection(a, seen) ==
    << Click(interp_loc("rhci.engine_mac_radio", "rhevm_mac")),
       Click(locators("rhci.next")) >>

\* lines 161-165
page_rhev_hypervisor_selection(a, seen) ==
    [i \in 1..Len(a.rhevh_macs) |->
        Click(interp_loc("rhci.hypervisor_mac_check", a.rhevh_macs[i]))]
    \o << Click(locators("rhci.next")) >>

\* Mutant of page_rhev_configuration: the admin password is filled only
\* when the confirmation of the root password is there.
page_rhev_configuration_Nested(a, seen) ==
    << Wait(locators("rhci.rhev_root_pass"), locators("rhci.rhev_root_pass") \in seen) >>
    \o IfSeq(locators("rhci.rhev_root_pass") \in seen,
          << Update(locators("rhci.rhev_root_pass")),
             Wait(locators("rhci.confirm_rhev_root_pass"),
                  locators("rhci.confirm_rhev_root_pass") \in seen) >>
          \o IfSeq(locators("rhci.confirm_rhev_root_pass") \in seen,
                << Update(locators("rhci.confirm_rhev_root_pass")),
                   Update(locators("rhci.rhevm_adminpass")) >>)
          \o << Wait(locators("rhci.confirm_rhevm_adminpass"),
                     locators("rhci.confirm_rhevm_adminpass") \in seen) >>
          \o IfSeq(locators("rhci.confirm_rhevm_adminpass") \in seen,
                << Update(locators("rhci.confirm_rhevm_adminpass")) >>))
    \o << Click(locators("rhci.next")) >>

\* lines 167-182
page_rhev_configuration(a, seen) ==
    << Wait(locators("rhci.rhev_root_pass"), locators("rhci.rhev_root_pass") \in seen) >>
    \o IfSeq(locators("rhci.rhev_root_pass") \in seen,
          << Update(locators("rhci.rhev_root_pass")),
             Wait(locators("rhci.confirm_rhev_root_pass"),
                  locators("rhci.confirm_rhev_root_pass") \in seen) >>
          \o IfSeq(locators("rhci.confirm_rhev_root_pass") \in seen,
                << Update(locators("rhci.confirm_rhev_root_pass")) >>)
          \o << Update(locators("rhci.rhevm_adminpass")),
                Wait(locators("rhci.confirm_rhevm_adminpass"),
                     locators("rhci.confirm_rhevm_adminpass") \in seen) >>
          \o IfSeq(locators("rhci.confirm_rhevm_adminpass") \in seen,
                << Update(locators("rhci.confirm_rhevm_adminpass")) >>)
          \o IfSeq(a.datacenter_name # "None", << Update(locators("rhci.datacenter_name")) >>)
          \o IfSeq(a.cluster_name # "None", << Update(locators("rhci.cluster_name")) >>)
          \o IfSeq(a.cpu_type # "None", << Update(locators("rhci.cpu_type")) >>))
    \o << Click(locators("rhci.next")) >>

\* Mutant of page_rhev_storage_configuration: Next is clicked after the if,
\* whether the data domain name field was found or not.
page_rhev_storage_configuration_AlwaysNext(a, seen) ==
    LET rhev_storage_type_loc == interp_loc("rhci.storage_type", "storage_type")
    IN  << Wait(rhev_storage_type_loc, rhev_storage_type_loc \in seen) >>
        \o IfSeq(rhev_storage_type_loc \in seen, << Click(rhev_storage_type_loc) >>)
        \o << Wait(locators("rhci.data_domain_name"),
                   locators("rhci.data_domain_name") \in seen) >>
        \o IfSeq(locators("rhci.data_domain_name") \in seen,
              << Update(locators("rhci.data_domain_name")),
                 Update(locators("rhci.data_domain_address")),
                 Update(locators("rhci.data_domain_share_path")),
                 Wait(locators("rhci.export_domain_name"),
                      locators("rhci.export_domain_name") \in seen) >>
              \o IfSeq(locators("rhci.export_domain_name") \in seen,
                    << Update(locators("rhci.export_domain_name")),
                       Update(locators("rhci.export_domain_address")),
                       Update(locators("rhci.export_domain_share_path")) >>))
        \o << Click(locators("rhci.next")) >>

\* lines 184-200
page_rhev_storage_configuration(a, seen) ==
    LET rhev_storage_type_loc == interp_loc("rhci.storage_type", "storage_type")
    IN  << Wait(rhev_storage_type_loc, rhev_storage_type_loc \in seen) >>
        \o IfSeq(rhev_storage_type_loc \in seen, << Click(rhev_storage_type_loc) >>)
        \o << Wait(locators("rhci.data_domain_name"),
                   locators("rhci.data_domain_name") \in seen) >>
        \o IfSeq(locators("rhci.data_domain_name") \in seen,
              << Update(locators("rhci.data_domain_name")),
                 Update(locators("rhci.data_domain_address")),
                 Update(locators("rhci.data_domain_share_path")),
                 Wait(locators("rhci.export_domain_name"),
                      locators("rhci.export_domain_name") \in seen) >>
              \o IfSeq(locators("rhci.export_domain_name") \in seen,
                    << Update(locators("rhci.export_domain_name")),
                       Update(locators("rhci.export_domain_address")),
                       Update(locators("rhci.export_domain_share_path")) >>)
              \o << Click(locators("rhci.next")) >>)

\* lines 202-215
page_cloudforms_configuration(a, seen) ==
    LET cfme_install_locator == interp_loc("rhci.cfme_install_on", "cfme_install_loc")
    IN  << Wait(cfme_install_locator, cfme_install_locator \in seen) >>
        \o IfSeq(cfme_install_locator \in seen, << Click(cfme_install_locator) >>)
        \o << Click(locators("rhci.next")),
              Wait(locators("rhci.cfme_root_password"),
                   locators("rhci.cfme_root_password") \in seen),
              Update(locators("rhci.cfme_root_password")),
              Wait(locators("rhci.confirm_cfme_root_password"),
                   locators("rhci.confirm_cfme_root_password") \in seen) >>
        \o IfSeq(locators("rhci.confirm_cfme_root_password") \in seen,
              << Update(locators("rhci.confirm_cfme_root_password")) >>)
        \o << Update(locators("rhci.cfme_admin_password")),
              Wait(locators("rhci.confirm_cfme_admin_password"),
                   locators("rhci.confirm_cfme_admin_password") \in seen) >>
        \o IfSeq(locators("rhci.confirm_cfme_admin_password") \in seen,
              << Update(locators("rhci.confirm_cfme_admin_password")) >>)
        \o << Click(locators("rhci.next")) >>

\* lines 217-222
page_redhat_login(a, seen) ==
    << Wait(locators("rhci.rhsm_username"), locators("rhci.rhsm_username") \in seen) >>
    \o IfSeq(locators("rhci.rhsm_username") \in seen,
          << Update(locators("rhci.rhsm_username")),
             Update(locators("rhci.rhsm_password")) >>)
    \o << Click(locators("rhci.next")) >>

\* lines 224-228
page_subscription_manager_apps(a, seen) ==
    LET rhsm_sat_radio_loc == interp_loc("rhci.rhsm_satellite_radio", "rhsm_satellite_uuid")
    IN  << Wait(rhsm_sat_radio_loc, rhsm_sat_radio_loc \in seen),
           Click(rhsm_sat_radio_loc),
           Click(locators("rhci.next")) >>

\* lines 230-235
page_select_subscriptions(a, seen) ==
    Flatten([i \in 1..Len(a.rhsm_subs) |->
        LET sub_check_loc == interp_loc("rhci.subscription_check", a.rhsm_subs[i])
        IN  << Wait(sub_check_loc, sub_check_loc \in seen) >>
            \o IfSeq(sub_check_loc \in seen, << Click(sub_check_loc) >>)])
    \o << Click(locators("rhci.next")) >>

\* lines 237-239
page_review_subscriptions(a, seen) == << Click(locators("rhci.next")) >>

\* lines 241-243: the click of Deploy; what follows it, the
\* wizard-completion wait, is the first part of this module.
page_review_deployment(a, seen) == << Click(locators("rhci.deploy")) >>

\* A statement of lines 52-81: the page method it calls, and the product
\* that the "if ... in products" around it asks for ("" when none is).
Stmt(page, needs) == [page |-> page, needs |-> needs]

\* Mutant of CreateBody: the RHEV pages are not guarded by line 65.
CreateBody_RhevUnguarded ==
    << Stmt("page_software_selection", ""),
       Stmt("page_satellite_configuration", ""),
       Stmt("page_lifecycle_environment", ""),
       Stmt("page_access_insights", ""),
       Stmt("page_discover_undercloud", "openstack"),
       Stmt("page_register_nodes", "openstack"),
       Stmt("page_assign_nodes", "openstack"),
       Stmt("page_rhev_setup_type", ""),
       Stmt("page_rhev_engine_selection", ""),
       Stmt("page_rhev_hypervisor_selection", ""),
       Stmt("page_rhev_configuration", ""),
       Stmt("page_rhev_storage_configuration", ""),
       Stmt("page_cloudforms_configuration", "cloudforms"),
       Stmt("page_redhat_login", ""),
       Stmt("page_subscription_manager_apps", ""),
       Stmt("page_select_subscriptions", ""),
       Stmt("page_review_subscriptions", ""),
       Stmt("page_review_deployment", "") >>

\* lines 52-81
CreateBody ==
    << Stmt("page_software_selection", ""),
       Stmt("page_satellite_configuration", ""),
       Stmt("page_lifecycle_environment", ""),
       Stmt("page_access_insights", ""),
       Stmt("page_discover_undercloud", "openstack"),
       Stmt("page_register_nodes", "openstack"),
       Stmt("page_assign_nodes", "openstack"),
       Stmt("page_rhev_setup_type", "rhev"),
       Stmt("page_rhev_engine_selection", "rhev"),
       Stmt("page_rhev_hypervisor_selection", "rhev"),
       Stmt("page_rhev_configuration", "rhev"),
       Stmt("page_rhev_storage_configuration", "rhev"),
       Stmt("page_cloudforms_configuration", "cloudforms"),
       Stmt("page_redhat_login", ""),
       Stmt("page_subscription_manager_apps", ""),
       Stmt("page_select_subscriptions", ""),
       Stmt("page_review_subscriptions", ""),
       Stmt("page_review_deployment", "") >>

\* What the page method does, given what its waits find.
PageCalls(page, a, seen) ==
    CASE page = "page_software_selection" -> page_software_selection(a, seen)
      [] page = "page_satellite_configuration" -> page_satellite_configuration(a, seen)
      [] page = "page_lifecycle_environment" -> page_lifecycle_environment(a, seen)
      [] page = "page_access_insights" -> page_access_insights(a, seen)
      [] page = "page_discover_undercloud" -> page_discover_undercloud(a, seen)
      [] page = "page_register_nodes" -> page_register_nodes(a, seen)
      [] page = "page_assign_nodes" -> page_assign_nodes(a, seen)
      [] page = "page_rhev_setup_type" -> page_rhev_setup_type(a, seen)
      [] page = "page_rhev_engine_selection" -> page_rhev_engine_selection(a, seen)
      [] page = "page_rhev_hypervisor_selection" -> page_rhev_hypervisor_selection(a, seen)
      [] page = "page_rhev_configuration" -> page_rhev_configuration(a, seen)
      [] page = "page_rhev_storage_configuration" -> page_rhev_storage_configuration(a, seen)
      [] page = "page_cloudforms_configuration" -> page_cloudforms_configuration(a, seen)
      [] page = "page_redhat_login" -> page_redhat_login(a, seen)
      [] page = "page_subscription_manager_apps" -> page_subscription_manager_apps(a, seen)
      [] page = "page_select_subscriptions" -> page_select_subscriptions(a, seen)
      [] page = "page_review_subscriptions" -> page_review_subscriptions(a, seen)
      [] page = "page_review_deployment" -> page_review_deployment(a, seen)

\* The locators the page methods hand to self.wait_until_element.
WaitedLocators(a) ==
    {locators("rhci.satellite_name"),
     interp_loc("rhci.rhev_setup_type", "rhev_setup_type"),
     locators("rhci.rhev_root_pass"),
     locators("rhci.confirm_rhev_root_pass"),
     locators("rhci.confirm_rhevm_adminpass"),
     interp_loc("rhci.storage_type", "storage_type"),
     locators("rhci.data_domain_name"),
     locators("rhci.export_domain_name"),
     interp_loc("rhci.cfme_install_on", "cfme_install_loc"),
     locators("rhci.cfme_root_password"),
     locators("rhci.confirm_cfme_root_password"),
     locators("rhci.confirm_cfme_admin_password"),
     locators("rhci.rhsm_username"),
     interp_loc("rhci.rhsm_satellite_radio", "rhsm_satellite_uuid")}
    \cup {interp_loc("rhci.subscription_check", a.rhsm_subs[i]) : i \in DOMAIN a.rhsm_subs}

\* The locators the page waits for when every wait finds its element: the
\* waits of a page lie only under waits that found theirs.
Waited(page, a) ==
    LET all == PageCalls(page, a, WaitedLocators(a))
    IN  {all[i].loc : i \in {j \in DOMAIN all : all[j].m = "wait_until_element"}}

\* The clicks on Next among calls: each moves the wizard to its next view.
NextClicks(calls) ==
    Cardinality({i \in DOMAIN calls : calls[i] = Click(locators("rhci.next"))})

InitWizard ==
    /\ wzArgs = << >>
    /\ wzPc = 0
    /\ wzPages = << >>
    /\ wzCalls = << >>
    /\ wzErr = "none"
    /\ wzAdvanced = << >>

\* A test calls create.
WzCreate ==
    /\ UNCHANGED notWizard
    /\ wzPc = 0
    /\ wzArgs' \in CreateArgs
    /\ wzPc' = 1
    /\ UNCHANGED <<wzPages, wzCalls, wzErr, wzAdvanced>>

\* The statement of create that runs next, when there is one.
WzRunning == wzErr = "none" /\ wzPc >= 1 /\ wzPc <= Len(CreateBody)

\* The product the statement asks for is not in products: lines 59, 65, 74
\* skip it.
WzSkip ==
    /\ UNCHANGED notWizard
    /\ WzRunning
    /\ CreateBody[wzPc].needs # ""
    /\ ~InList(CreateBody[wzPc].needs, wzArgs.products)
    /\ wzPc' = wzPc + 1
    /\ UNCHANGED <<wzArgs, wzPages, wzCalls, wzErr, wzAdvanced>>

\* A page method runs: its waits find their elements or not, and its calls
\* are made in order until one of them raises (self.click and
\* self.text_field_update are in no try) or the method returns.  The last
\* page ends as the wizard-completion wait does: it returns, or it raises
\* the exception of line 264.
WzPage ==
    /\ UNCHANGED notWizard
    /\ WzRunning
    /\ CreateBody[wzPc].needs # "" => InList(CreateBody[wzPc].needs, wzArgs.products)
    /\ LET page == CreateBody[wzPc].page
       IN  /\ wzPages' = Append(wzPages, page)
           /\ \E seen \in SUBSET Waited(page, wzArgs) :
                LET calls == PageCalls(page, wzArgs, seen)
                IN  \/ /\ wzCalls' = calls
                       /\ wzAdvanced' = Append(wzAdvanced, NextClicks(calls))
                       /\ wzPc' = wzPc + 1
                       /\ \/ wzErr' = "none"
                          \/ page = "page_review_deployment" /\ wzErr' = "Exhausted"
                    \/ \E k \in DOMAIN calls :
                          /\ calls[k].m # "wait_until_element"
                          /\ wzCalls' = SubSeq(calls, 1, k)
                          /\ wzAdvanced' =
                                Append(wzAdvanced, NextClicks(SubSeq(calls, 1, k - 1)))
                          /\ wzPc' = wzPc
                          /\ wzErr' = "fault"
    /\ UNCHANGED wzArgs

NextWizard ==
    \/ WzCreate
    \/ WzSkip
    \/ WzPage

(* The data functions of src/robottelo/datafactory.py                      *)

\* The values of the data sets: gen_string(str_type, length) is some string
\* of that type and length; the others are literals.
GenString(str_type, length) == [kind |-> "gen_string", v |-> str_type, len |-> length]
Lit(text, length) == [kind |-> "literal", v |-> text, len |-> length]
GenEmail(str_type, length) == [kind |-> "gen_email", v |-> str_type, len |-> length]

\* lines 53-54: the string types, in the order of the tuple.
StrTypes == <<"alpha", "numeric", "alphanumeric", "latin1", "utf8", "cjk", "html">>

\* gen_integer(3, 30), line 49
RandomLengths == 3..30

\* Mutant of Datacheck: the one data point is returned when the setting is
\* off.
Datacheck_Inverted(dataset, run_one_datapoint, choice) ==
    IF ~run_one_datapoint THEN <<dataset[choice]>> ELSE dataset

\* lines 24-29: func_wrapper; choice is the index random.choice takes.
Datacheck(dataset, run_one_datapoint, choice) ==
    IF run_one_datapoint THEN <<dataset[choice]>> ELSE dataset

\* The sequence s, begun at its (r+1)-th element: one of the orders in
\* which a dict may hand out its values.
Rotated(s, r) == SubSeq(s, r + 1, Len(s)) \o SubSeq(s, 1, r)

\* line 58: whether the string type is deleted; open is what
\* bz_bug_is_open(bug_id) answers.
Removes(remove_str, bug_id, open) ==
    remove_str # "None" /\ (bug_id = "None" \/ open)

\* Mutant of GenerateStringsList: the string type is deleted whatever the
\* bug is.
GenerateStringsList_IgnoresBug(length, remove_str, bug_id, open) ==
    LET kept == IF remove_str # "None"
                THEN SelectSeq(StrTypes, LAMBDA t : t # remove_str)
                ELSE StrTypes
    IN  [i \in DOMAIN kept |-> GenString(kept[i], length)]

\* lines 50-60, for a remove_str that is None or a key of strings: the
\* values of the dict, in the order of the tuple.
GenerateStringsList(length, remove_str, bug_id, open) ==
    LET kept == IF Removes(remove_str, bug_id, open)
                THEN SelectSeq(StrTypes, LAMBDA t : t # remove_str)
                ELSE StrTypes
    IN  [i \in DOMAIN kept |-> GenString(kept[i], length)]

\* lines 66-77
InvalidEmailsList ==
    << Lit("foreman@", 8), Lit("@foreman", 8), Lit("@", 1),
       Lit("Abc.example.com", 15), Lit("A@b@c@example.com", 17),
       Lit("email@example..c", 16), GenEmail("alpha", 61), GenEmail("html", 0),
       Lit("s p a c e s@example.com", 23), Lit("dot..dot@example.com", 20) >>

\* lines 83-88
InvalidIdList ==
    << GenString("alpha", 10), [kind |-> "None", v |-> "None", len |-> 0],
       Lit("", 0), [kind |-> "int", v |-> "-1", len |-> 0] >>

\* lines 94-102
InvalidNamesList ==
    << GenString("alphanumeric", 300), GenString("alpha", 300),
       GenString("cjk", 300), GenString("latin1", 300),
       GenString("numeric", 300), GenString("utf8", 300),
       GenString("html", 300) >>

\* Mutant of InvalidValuesList: the tab is among the values of "ui" too.
InvalidValuesList_TabForUi(interface, names) ==
    << Lit("", 0), Lit(" ", 1), Lit("\t", 1) >> \o names

\* lines 121-124, for an interface that line 117 lets through; names is
\* what invalid_names_list() returned.
InvalidValuesList(interface, names) ==
    IF interface = "ui"
    THEN << Lit("", 0), Lit(" ", 1) >> \o names
    ELSE << Lit("", 0), Lit(" ", 1), Lit("\t", 1) >> \o names

\* The arguments of a call; a function reads those it has.
DataArgs(length_given, length, remove_str, bug_id, open, interface) ==
    [length_given |-> length_given, length |-> length, remove_str |-> remove_str,
     bug_id |-> bug_id, bug_open |-> open, interface |-> interface]

NoArgs == DataArgs(FALSE, 0, "None", "None", FALSE, "None")

\* The arguments tests call the functions with; "None" is None.
Lengths == {1, 5}
RemoveStrs == {"None", "numeric", "html", "unknown"}
BugIds == {"None", "1234"}
Interfaces == {"api", "cli", "ui", "None", "gui"}

\* No data function has been called.
DataIdle ==
    /\ dfFunc = "none"
    /\ dfArgs = NoArgs
    /\ dfNames = << >>
    /\ dfDataset = << >>
    /\ dfResult = << >>
    /\ dfErr = "none"

\* settings.run_one_datapoint is False unless the configuration sets it.
InitData == dfOne = FALSE /\ DataIdle

\* lines 33-60: generate_strings_list(length, remove_str, bug_id) under the
\* wrapper of datacheck.  "del strings[remove_str]" raises KeyError for a
\* remove_str that is no key of strings.
CallGenerateStringsList ==
    /\ UNCHANGED notData
    /\ dfFunc = "none"
    /\ \E given \in BOOLEAN, asked \in Lengths, random \in RandomLengths,
          remove_str \in RemoveStrs, bug_id \in BugIds, open \in BOOLEAN :
          LET length == IF given THEN asked ELSE random
              args == DataArgs(given, length, remove_str, bug_id, open, "None")
              isKey == \E i \in DOMAIN StrTypes : StrTypes[i] = remove_str
              strings == GenerateStringsList(length, remove_str, bug_id, open)
          IN  /\ dfFunc' = "generate_strings_list"
              /\ dfArgs' = args
              /\ dfNames' = << >>
              /\ IF Removes(remove_str, bug_id, open) /\ ~isKey
                 THEN /\ dfErr' = "KeyError"
                      /\ dfDataset' = << >>
                      /\ dfResult' = << >>
                 ELSE /\ dfErr' = "none"
                      /\ \E r \in 0..(Len(strings) - 1), choice \in DOMAIN strings :
                            /\ dfDataset' = Rotated(strings, r)
                            /\ dfResult' = Datacheck(Rotated(strings, r), dfOne, choice)
    /\ UNCHANGED dfOne

\* The functions that take no argument.
PlainFunctions == {"invalid_emails_list", "invalid_id_list", "invalid_names_list"}

PlainDataset(f) ==
    CASE f = "invalid_emails_list" -> InvalidEmailsList
      [] f = "invalid_id_list" -> InvalidIdList
      [] f = "invalid_names_list" -> InvalidNamesList

\* lines 63-102: invalid_emails_list(), invalid_id_list() and
\* invalid_names_list() under the wrapper of datacheck.
CallPlain ==
    /\ UNCHANGED notData
    /\ dfFunc = "none"
    /\ \E f \in PlainFunctions :
          /\ dfFunc' = f
          /\ dfDataset' = PlainDataset(f)
          /\ \E choice \in DOMAIN PlainDataset(f) :
                dfResult' = Datacheck(PlainDataset(f), dfOne, choice)
    /\ dfArgs' = NoArgs
    /\ dfNames' = << >>
    /\ dfErr' = "none"
    /\ UNCHANGED dfOne

\* lines 105-124: invalid_values_list(interface) under the wrapper of
\* datacheck; the invalid_names_list() it calls is under that wrapper too.
CallInvalidValuesList ==
    /\ UNCHANGED notData
    /\ dfFunc = "none"
    /\ \E interface \in Interfaces :
          /\ dfFunc' = "invalid_values_list"
          /\ dfArgs' = DataArgs(FALSE, 0, "None", "None", FALSE, interface)
          /\ IF interface \notin {"api", "cli", "ui", "None"}
             THEN /\ dfErr' = "InvalidArgumentError"
                  /\ dfNames' = << >>
                  /\ dfDataset' = << >>
                  /\ dfResult' = << >>
             ELSE /\ dfErr' = "none"
                  /\ \E inner \in DOMAIN InvalidNamesList :
                        LET names == Datacheck(InvalidNamesList, dfOne, inner)
                            dataset == InvalidValuesList(interface, names)
                        IN  /\ dfNames' = names
                            /\ dfDataset' = dataset
                            /\ \E choice \in DOMAIN dataset :
                                  dfResult' = Datacheck(dataset, dfOne, choice)
    /\ UNCHANGED dfOne

NextData ==
    \/ CallGenerateStringsList
    \/ CallPlain
    \/ CallInvalidValuesList

-----------------------------------------------------------------------------

(* Specifications                                                          *)

\* The wizard-completion wait.
Init == InitWait /\ InitGpg /\ InitContent /\ InitWizard
        /\ InitData

Next == NextWait

Spec == Init /\ [][Next]_vars

\* The method runs on one thread that executes statement after statement:
\* every sleep returns and every driver call returns or raises.
FairSpec == Spec /\ WF_vars(Next)

\* Calls of GPGKey against a server that is given keys.
GpgInit == InitWait /\ net = "up" /\ InitGpg /\ InitContent /\ InitWizard
        /\ InitData

SpecGpg == GpgInit /\ [][NextGpg]_vars

\* One call of a content operation against a page whose elements show up
\* or not.
ContentInit == InitWait /\ net = "up" /\ InitGpg /\ InitContent /\ InitWizard
        /\ InitData

SpecContent == ContentInit /\ [][NextContent]_vars

-----------------------------------------------------------------------------
\* One operation of the page-object layer is run: a content operation, or
\* the review-deployment page of the wizard.
LayerNext ==
    \/ ctOp.name = "idle" /\ NextWait
    \/ pc = "deploy" /\ NextContent

SpecLayer == Init /\ [][LayerNext]_vars

\* One call of RHCI.create against pages whose elements show up or not.
WizardInit == InitWait /\ net = "up" /\ InitGpg /\ InitContent /\ InitWizard
        /\ InitData

SpecWizard == WizardInit /\ [][NextWizard]_vars

-----------------------------------------------------------------------------
\* Calls of the data functions, under either value of the setting.
DataInit == InitWait /\ net = "up" /\ InitGpg /\ InitContent /\ InitWizard
            /\ dfOne \in BOOLEAN /\ DataIdle

SpecData == DataInit /\ [][NextData]_vars

-----------------------------------------------------------------------------
(* Properties of the wizard-completion wait                                *)

\* How the method can end.
WaitTerminal == {"Completed", "Exhausted", "Aborted"}

\* Every refresh phase of the run ends with a successful refresh.
WithinBudget(s) == \A a \in 1..MaxOuter : FailsBefore(s, a) < MaxRefresh

\* C1: when the continue control is never clickable and every refresh phase
\* succeeds within its budget, the exhausted-retry failure is raised exactly
\* once, after exactly 240 click attempts and not before: it is raised only
\* with 240 failed clicks behind it, and with 240 failed clicks behind it the
\* loop can only raise.
C1_ExhaustedOnceAfter240 ==
    WithinBudget(net) =>
        /\ raised <= 1
        /\ raised = 1 <=> pc = "Exhausted"
        /\ raised = 1 => clicks = 240 /\ okClicks = 0 /\ escaped = "Exhausted"
        /\ (pc = "for" /\ clicks = 240) => ENABLED RaiseExhausted /\ ~ENABLED ForNext
        /\ (pc = "for" /\ clicks < 240) => ~ENABLED RaiseExhausted

C1_Witness ==
    /\ pc = "Exhausted"
    /\ net = "five"
    /\ raised = 1
    /\ clicks = 240
    /\ okClicks = 0

\* C2: the first click that succeeds ends the loop successfully: the method
\* is then at its end with no failure, and no sleep, click or refresh follows.
C2_SuccessEndsLoop ==
    /\ [](okClicks > 0 => pc = "Completed" /\ okClicks = 1 /\ escaped = "none")
    /\ [][okClicks > 0 =>
            UNCHANGED <<slept, clicks, refreshes, raised, escaped, pc>>]_vars

C2_Witness ==
    /\ pc = "Completed"
    /\ okClicks = 1
    /\ clicks = 2
    /\ refreshes > 0

\* C3 as stated: with the continue control absent three times and then
\* present, the loop succeeds after exactly 4 click attempts and has
\* performed 0 refreshes.
C3_Original ==
    (clicks = 4 /\ okClicks = 1) => pc = "Completed" /\ n = 4 /\ refreshes = 0

\* C3 as amended: with the continue control absent three times and then
\* present, the loop succeeds after exactly 4 click attempts and has run the
\* refresh phase after each of the three failed clicks: at least 3 refreshes,
\* exactly 3 when every refresh succeeds at its first call.
C3_FourAttemptsThreeRefreshes ==
    (clicks = 4 /\ okClicks = 1) =>
        /\ pc = "Completed"
        /\ n = 4
        /\ escaped = "none"
        /\ refreshes >= 3
        /\ net = "up" => refreshes = 3

C3_Witness ==
    /\ clicks = 4
    /\ okClicks = 1
    /\ net = "up"
    /\ refreshes = 3

\* C4: in an outer attempt whose click failed and whose refresh outcomes are
\* five failures followed by a success, the loop makes exactly 5 refresh
\* retries, each failed refresh followed by one 15-second sleep; the refresh
\* phase ends with the sixth call and polling goes on with the next attempt.
C4_FiveRetries ==
    /\ [](  (pc = "for" /\ n >= 1 /\ FailsBefore(net, n) = 5) =>
              /\ attempts = 5
              /\ naps = 5
              /\ tries = 6
              /\ success
              /\ escaped = "none")
    /\ [][ (pc = "while" /\ FailsBefore(net, n) = 5 /\ tries = 6) =>
              pc' = "for" ]_vars
    /\ [][ (pc = "for" /\ FailsBefore(net, n) = 5 /\ n >= 1 /\ n < MaxOuter) =>
              pc' = "sleep90" /\ n' = n + 1 ]_vars

C4_Witness ==
    /\ pc = "sleep90"
    /\ n = 2
    /\ net = "five"
    /\ naps = 5
    /\ tries = 6

C5_Inv ==
    /\ n <= MaxOuter
    /\ clicks <= MaxOuter
    /\ (pc \notin {"deploy", "Aborted"} /\ ~ENABLED Next) =>
            pc \in {"Completed", "Exhausted"}
    /\ pc = "Completed" => okClicks = 1 /\ clicks = n /\ ~ENABLED Next
    /\ pc = "Exhausted" => okClicks = 0 /\ clicks = MaxOuter /\ ~ENABLED Next

\* C5: for every sequence of click and refresh outcomes the wait ends, either
\* Completed (a click among the first 240 succeeded) or Exhausted (all 240
\* clicks failed); it has no other exit and never runs more than 240 outer
\* attempts.
C5_Terminates ==
    /\ []C5_Inv
    /\ (pc = "for") ~> (pc \in {"Completed", "Exhausted"})

C5_Witness ==
    /\ pc = "Exhausted"
    /\ net = "ramp"
    /\ clicks = MaxOuter

\* C6: within one outer attempt the refresh is called at most 40 times and
\* not again after its first success; when all 40 calls fail, no failure
\* leaves the method and the loop goes on to its next outer attempt.
C6_RefreshBudget ==
    /\ [](tries <= 40 /\ (success /\ pc # "Completed" => tries = naps + 1))
    /\ [][success => refreshes' = refreshes]_vars
    /\ [][ (pc = "while" /\ tries = 40 /\ ~success) =>
              pc' = "for" /\ escaped' = "none" /\ raised' = raised ]_vars
    /\ [][ (pc = "for" /\ ~success /\ n >= 1 /\ n < MaxOuter) =>
              pc' = "sleep90" /\ n' = n + 1 ]_vars

C6_Witness ==
    /\ pc = "sleep90"
    /\ n = 3
    /\ tries = 40
    /\ ~success

C8_OnlyExhaustedEscapes ==
    /\ escaped \in {"none", "Exhausted", "DeployClick"}
    /\ escaped = "DeployClick" => clicks = 0 /\ refreshes = 0
    /\ escaped = "Exhausted" <=> raised = 1
    /\ ev \in {"click_fail", "refresh_fail"} =>
            escaped = "none" /\ pc \notin WaitTerminal

C8_Witness ==
    /\ pc = "Exhausted"
    /\ escaped = "Exhausted"
    /\ net = "down"
    /\ refreshes = MaxOuter * MaxRefresh

-----------------------------------------------------------------------------
(* Properties of GPGKey                                                    *)

\* C9: exists returns at most one record: when the list it made has one or
\* more records, result.stdout is exactly the first of them; when the list
\* is empty (the filter matches nothing), result.stdout stays the empty list
\* and no record is returned.
C9_ExistsReturnsHead ==
    gpgOp = "exists" =>
        /\ gpgResult.return_code = gpgListed.return_code
        /\ IF Len(gpgListed.stdout.val) >= 1
           THEN /\ gpgResult.stdout.kind = "row"
                /\ gpgResult.stdout.val = gpgListed.stdout.val[1]
           ELSE /\ gpgResult.stdout.kind = "rows"
                /\ gpgResult.stdout.val = <<>>

\* exists has answered a search that two keys match with the first of them.
C9_Witness ==
    /\ gpgOp = "exists"
    /\ Len(gpgListed.stdout.val) = 2
    /\ "search" \in DOMAIN gpgOptions
    /\ gpgResult.stdout.kind = "row"
    /\ gpgResult.stdout.val.ID = gpgListed.stdout.val[1].ID
    /\ gpgListed.stdout.val[2].ID # gpgListed.stdout.val[1].ID

-----------------------------------------------------------------------------
\* C16: for every options mapping, the command line made of the options is
\* executed and the table printed for it (the fixture) is parsed, as
\* comma-separated lines under a line of column names, into exactly the
\* records the table encodes: as many, with the same values, in the same
\* order.
C16_ParsedRecordsAreFixture ==
    gpgOp # "none" /\ gpgListed.return_code = 0 =>
        /\ Len(gpgListed.stdout.val) = Len(gpgFixture)
        /\ \A i \in DOMAIN gpgFixture :
              /\ DOMAIN gpgListed.stdout.val[i] = {"ID", "Name"}
              /\ gpgListed.stdout.val[i].ID = gpgFixture[i].ID
              /\ gpgListed.stdout.val[i].Name = gpgFixture[i].Name

\* list has parsed a table of two records, the keys 1 and 3 of the three
\* the server holds, under options that carry a search.
C16_Witness ==
    /\ gpgOp = "list"
    /\ gpgListed.return_code = 0
    /\ "search" \in DOMAIN gpgOptions
    /\ Len(gpgKeys) = 3
    /\ Len(gpgFixture) = 2
    /\ gpgListed.stdout.val[1] = [ID |-> <<"1">>, Name |-> <<"k1">>]
    /\ gpgListed.stdout.val[2] = [ID |-> <<"3">>, Name |-> <<"k1">>]

-----------------------------------------------------------------------------

(* Properties of the content operations                                    *)

\* The statement that runs next is a fail_if_none over a variable that
\* wait_until_element has set to None.
RequiredAbsent ==
    /\ Running
    /\ Cur.op = "fail_if_none"
    /\ ctEnv[Cur.var].t = "none"
    /\ ctEnv[Cur.var].src = "wait"

\* C10: in every content operation, a fail_if_none over an element that
\* wait_until_element did not find raises the not-found failure (an
\* AssertionError), and no driver call (no click, no send_keys) is made
\* after it.
C10_AbsentRequiredFieldStops ==
    [][ /\ RequiredAbsent => ctErr' = "AssertionError" /\ ctCalls' = ctCalls
        /\ ctErr = "AssertionError" => ctCalls' = ctCalls /\ ctErr' = ctErr
      ]_vars

\* enable_repository has failed on the absent arch element, after its
\* earlier clicks.
C10_Witness ==
    /\ ctOp.name = "enable_repository"
    /\ ctErr = "AssertionError"
    /\ Cur.op = "fail_if_none"
    /\ Cur.var = "arch_span"
    /\ ctEnv["arch_span"] = None("RHEL_PRODUCT_ARCH", "wait")
    /\ Len(ctCalls) >= 5

\* A method of an element is about to be called, or has just failed, on a
\* local variable that wait_until_element has set.
MethodOnWaited ==
    /\ ctPc >= 1 /\ ctPc <= Len(Body(ctOp))
    /\ Cur.op \in {"click", "send_keys", "get_attribute"}
    /\ ctEnv[Cur.var].src = "wait"

\* C11: in every content operation, an element obtained from
\* wait_until_element has been asserted non-absent before click, send_keys
\* or get_attribute is called on it: the call never finds None in the
\* variable, so that it never ends with a null-reference fault
\* (AttributeError).
C11_AssertedBeforeUse ==
    MethodOnWaited =>
        /\ ctEnv[Cur.var].t # "none"
        /\ ctErr # "AttributeError"

\* The step is a hover (perform) or a click inside the try of
\* select_content_provider that raises a WebDriverException.
HoverOrClickFaults ==
    /\ Running
    /\ Cur.op \in {"perform", "click"}
    /\ Cur.left >= 0
    /\ Len(ctFaults') > Len(ctFaults)
    /\ ctFaults'[Len(ctFaults) + 1].exc = "WebDriverException"

\* C12: in select_content_provider, a WebDriverException of the hover or
\* of the click is not propagated: exactly one driver.get is made, to the
\* current URL for a type with "custom", to the current URL +
\* "/redhat_provider" for one with "redhat", to the base URL + "/filters"
\* for one with "filters" and to the base URL + "/gpg_keys" otherwise, and
\* (driver.get raising nothing itself) the operation goes on after the try
\* with no exception.
C12_FaultFallsBackToUrl ==
    [][ HoverOrClickFaults =>
          /\ Len(ctCalls') = Len(ctCalls) + 2
          /\ SubSeq(ctCalls', 1, Len(ctCalls)) = ctCalls
          /\ ctCalls'[Len(ctCalls) + 1].m = Cur.op
          /\ ctCalls'[Len(ctCalls) + 2].m = "get"
          /\ LET url == ctCalls'[Len(ctCalls) + 2].arg.v
                 typ == Cur.typ
             IN  /\ "custom" \in typ => url = <<"current_url">>
                 /\ "custom" \notin typ /\ "redhat" \in typ =>
                        url = <<"current_url", "/redhat_provider">>
                 /\ typ \cap {"custom", "redhat"} = {} /\ "filters" \in typ =>
                        url = <<"base_url", "/filters">>
                 /\ typ \cap {"custom", "redhat", "filters"} = {} =>
                        url = <<"base_url", "/gpg_keys">>
          /\ Len(ctFaults') = Len(ctFaults) + 1 =>
                /\ ctErr' = "none"
                /\ ctPc' = ctPc + Cur.left + 1
                /\ Body(ctOp)[ctPc'- 1].left = 0
      ]_vars

\* select_content_provider, called with a "filters" type, has returned
\* after the hover raised and the driver was sent to base URL + "/filters".
C12_Witness ==
    /\ ctOp.name = "select_content_provider"
    /\ ctOp.typ = {"filters"}
    /\ ctPc = Len(Body(ctOp)) + 1
    /\ ctErr = "none"
    /\ ctFaults = << Fault("WebDriverException", 4) >>
    /\ Len(ctCalls) = 2
    /\ ctCalls[1].m = "perform"
    /\ ctCalls[2] = DriverCall("get", "driver", Url(<<"base_url", "/filters">>))

\* The i-th exception of the content operation was caught: another one
\* followed it, or the operation went on.
Swallowed(i) == i < Len(ctFaults) \/ ctErr = "none"

\* The WebDriverExceptions of a content operation are swallowed inside the
\* try of select_content_provider, and nowhere else.
ContentSwallowsInTryOnly ==
    \A i \in DOMAIN ctFaults :
        IsInstance(ctFaults[i].exc, "WebDriverException") =>
            (Swallowed(i) => Body(ctOp)[ctFaults[i].at].left >= 0)

-----------------------------------------------------------------------------
(* Properties of RHCI.create                                               *)

\* s is the beginning of t.
IsPrefix(s, t) == Len(s) <= Len(t) /\ SubSeq(t, 1, Len(s)) = s

OpenStackPages ==
    << "page_discover_undercloud", "page_register_nodes", "page_assign_nodes" >>

RhevPages ==
    << "page_rhev_setup_type", "page_rhev_engine_selection",
       "page_rhev_hypervisor_selection", "page_rhev_configuration",
       "page_rhev_storage_configuration" >>

CloudFormsPages == << "page_cloudforms_configuration" >>

\* The walk for a list of products: the four pages every walk begins with,
\* the pages of the products chosen, the five pages every walk ends with.
WalkOf(products) ==
    << "page_software_selection", "page_satellite_configuration",
       "page_lifecycle_environment", "page_access_insights" >>
    \o IfSeq("openstack" \in {products[i] : i \in DOMAIN products}, OpenStackPages)
    \o IfSeq("rhev" \in {products[i] : i \in DOMAIN products}, RhevPages)
    \o IfSeq("cloudforms" \in {products[i] : i \in DOMAIN products}, CloudFormsPages)
    \o << "page_redhat_login", "page_subscription_manager_apps",
          "page_select_subscriptions", "page_review_subscriptions",
          "page_review_deployment" >>

\* The pages of s that belong to the product pages ps.
Among(s, ps) == {i \in DOMAIN s : \E j \in DOMAIN ps : s[i] = ps[j]}

\* C14: create walks the pages in the fixed order software selection,
\* satellite configuration, lifecycle environment, access insights, the
\* OpenStack pages exactly when "openstack" is in products, the RHEV pages
\* exactly when "rhev" is, the CloudForms page exactly when "cloudforms" is,
\* then Red Hat login, subscription-manager application, select
\* subscriptions, review subscriptions and, last, review deployment; it
\* enters no page twice and no page of a product that was not chosen.
C14_PagesInFixedOrder ==
    wzPc >= 1 =>
        /\ IsPrefix(wzPages, WalkOf(wzArgs.products))
        /\ wzPc = Len(CreateBody) + 1 => wzPages = WalkOf(wzArgs.products)
        /\ \A i, j \in DOMAIN wzPages : i # j => wzPages[i] # wzPages[j]
        /\ ~InList("openstack", wzArgs.products) => Among(wzPages, OpenStackPages) = {}
        /\ ~InList("rhev", wzArgs.products) => Among(wzPages, RhevPages) = {}
        /\ ~InList("cloudforms", wzArgs.products) => Among(wzPages, CloudFormsPages) = {}

\* create has returned for products = ["cloudforms", "openstack"]: thirteen
\* pages, the OpenStack pages before the CloudForms page, no RHEV page.
C14_Witness ==
    /\ wzPc = Len(CreateBody) + 1
    /\ wzErr = "none"
    /\ wzArgs.products = << "cloudforms", "openstack" >>
    /\ Len(wzPages) = 13
    /\ wzPages[5] = "page_discover_undercloud"
    /\ wzPages[8] = "page_cloudforms_configuration"
    /\ wzPages[13] = "page_review_deployment"

\* The page method entered last is _page_rhev_configuration.
OnRhevConfiguration ==
    /\ wzPages # << >>
    /\ wzPages[Len(wzPages)] = "page_rhev_configuration"

\* How often the page method entered last made the call c.
TimesDone(c) == Cardinality({i \in DOMAIN wzCalls : wzCalls[i] = c})

\* The two optional confirmation fields of the RHEV configuration page.
ConfirmationFields ==
    {locators("rhci.confirm_rhev_root_pass"), locators("rhci.confirm_rhevm_adminpass")}

\* C15: on the RHEV configuration page a confirmation field (confirm root
\* password, confirm admin password) that wait_until_element does not find
\* is not fatal: its text_field_update is skipped, the root password and
\* the admin password are still filled in and Next is clicked exactly once
\* (no call of the page raising), whichever of the two confirmation fields
\* are there; one that is there is filled in.
C15_AbsentConfirmationSkipped ==
    OnRhevConfiguration =>
        \A c \in ConfirmationFields :
            /\ TimesDone(Wait(c, FALSE)) > 0 =>
                  /\ TimesDone(Update(c)) = 0
                  /\ wzErr = "none" =>
                        /\ TimesDone(Update(locators("rhci.rhev_root_pass"))) = 1
                        /\ TimesDone(Update(locators("rhci.rhevm_adminpass"))) = 1
                        /\ TimesDone(Click(locators("rhci.next"))) = 1
                        /\ wzCalls[Len(wzCalls)] = Click(locators("rhci.next"))
            /\ TimesDone(Wait(c, TRUE)) > 0 /\ wzErr = "none" =>
                  /\ TimesDone(Update(c)) = 1
                  /\ TimesDone(Click(locators("rhci.next"))) = 1

\* The page has returned with the confirmation of the root password absent
\* and the confirmation of the admin password there.
C15_Witness ==
    /\ OnRhevConfiguration
    /\ wzErr = "none"
    /\ TimesDone(Wait(locators("rhci.confirm_rhev_root_pass"), FALSE)) = 1
    /\ TimesDone(Wait(locators("rhci.confirm_rhevm_adminpass"), TRUE)) = 1
    /\ TimesDone(Update(locators("rhci.confirm_rhevm_adminpass"))) = 1
    /\ TimesDone(Update(locators("rhci.rhevm_adminpass"))) = 1
    /\ TimesDone(Click(locators("rhci.next"))) = 1

-----------------------------------------------------------------------------
(* Properties of the data functions                                        *)

\* C17: for every data function under datacheck: with
\* settings.run_one_datapoint false the wrapper returns the data set of the
\* function as it is; with it true the wrapper returns a list of exactly
\* one element, which is an element of the data set of the function.
C17_DatacheckAllOrOne ==
    dfFunc # "none" /\ dfErr = "none" =>
        /\ ~dfOne => dfResult = dfDataset
        /\ dfOne =>
              /\ Len(dfResult) = 1
              /\ \E i \in DOMAIN dfDataset : dfDataset[i] = dfResult[1]

\* invalid_emails_list() has returned the one data point "@" of its ten.
C17_Witness ==
    /\ dfOne
    /\ dfFunc = "invalid_emails_list"
    /\ Len(dfDataset) = 10
    /\ dfResult = << Lit("@", 1) >>

\* The empty-like strings invalid_values_list puts before the names.
EmptyLike(interface) ==
    IF interface = "ui"
    THEN << Lit("", 0), Lit(" ", 1) >>
    ELSE << Lit("", 0), Lit(" ", 1), Lit("\t", 1) >>

\* C18 as stated: invalid_values_list raises InvalidArgumentError and
\* returns no list for an interface other than "api", "cli", "ui" and None;
\* for "ui" the result is "" and " " followed by the invalid names, for
\* "api", "cli" and None it is "", " " and a tab followed by the invalid
\* names.
C18_Original ==
    dfFunc = "invalid_values_list" =>
        IF dfArgs.interface \in {"api", "cli", "ui", "None"}
        THEN /\ dfErr = "none"
             /\ dfResult = EmptyLike(dfArgs.interface) \o InvalidNamesList
        ELSE /\ dfErr = "InvalidArgumentError"
             /\ dfResult = << >>

\* C18, amended: the stated result is the one with
\* settings.run_one_datapoint false.  With it true, invalid_names_list()
\* hands one of the invalid names to invalid_values_list, whose data set is
\* then the empty-like strings followed by that one name, and the result
\* is one element of that data set.  InvalidArgumentError is raised for
\* every other interface under either setting.
C18_InvalidValuesOfInterface ==
    dfFunc = "invalid_values_list" =>
        IF dfArgs.interface \in {"api", "cli", "ui", "None"}
        THEN /\ dfErr = "none"
             /\ ~dfOne => dfResult = EmptyLike(dfArgs.interface) \o InvalidNamesList
             /\ dfOne =>
                   /\ Len(dfNames) = 1
                   /\ \E i \in DOMAIN InvalidNamesList : dfNames[1] = InvalidNamesList[i]
                   /\ dfDataset = EmptyLike(dfArgs.interface) \o dfNames
                   /\ Len(dfResult) = 1
                   /\ \E i \in DOMAIN dfDataset : dfResult[1] = dfDataset[i]
        ELSE /\ dfErr = "InvalidArgumentError"
             /\ dfResult = << >>

\* invalid_values_list("ui") has returned the one invalid name it was
\* handed, out of a data set of three.
C18_Witness ==
    /\ dfFunc = "invalid_values_list"
    /\ dfArgs.interface = "ui"
    /\ dfOne
    /\ Len(dfDataset) = 3
    /\ dfResult = << GenString("cjk", 300) >>

\* The string types, and those of a list of strings.
AllStrTypes == {StrTypes[i] : i \in DOMAIN StrTypes}
TypesOf(strings) == {strings[i].v : i \in DOMAIN strings}

\* The string types a call of generate_strings_list is to keep: all but
\* remove_str when remove_str is given and no bug_id is, or the bug is
\* open; all of them otherwise.
KeptTypes ==
    IF dfArgs.remove_str # "None" /\ (dfArgs.bug_id = "None" \/ dfArgs.bug_open)
    THEN AllStrTypes \ {dfArgs.remove_str}
    ELSE AllStrTypes

\* One string for each of the types ts, each of the length of the call.
OnePerType(strings, ts) ==
    /\ Len(strings) = Cardinality(ts)
    /\ TypesOf(strings) = ts
    /\ \A i \in DOMAIN strings :
          strings[i].kind = "gen_string" /\ strings[i].len = dfArgs.length

-----------------------------------------------------------------------------
(* The sleeps of the wizard-completion wait                                *)

\* ev is the last thing the method did (the tests of the two loops do
\* nothing and leave it alone), slept the seconds slept so far.

RefreshPhaseDone == success \/ attempts = MaxRefresh

\* C28: after every failed click on the continue control a refresh is
\* attempted at least once, also after the 240th: what the method does next
\* after a failed click is a refresh, and the exhausted-retry failure is
\* raised only when the last iteration has made a refresh and its refresh
\* phase is over.
C28_RefreshAfterEveryFailedClick ==
    [][ /\ ev = "click_fail" =>
               /\ ev' \in {"click_fail", "refresh_ok", "refresh_fail"}
               /\ pc' \in {"refresh", "while", "sleep15"}
        /\ pc' = "Exhausted" =>
               /\ n = MaxOuter
               /\ clicks = MaxOuter
               /\ tries >= 1
               /\ RefreshPhaseDone
               /\ ev \in {"refresh_ok", "sleep15"}
      ]_vars

\* The failure was raised after the 240th failed click and the refreshes
\* that followed it, the last of which succeeded.
C28_Witness ==
    /\ pc = "Exhausted"
    /\ net = "ramp"
    /\ clicks = MaxOuter
    /\ okClicks = 0
    /\ tries = FailsBefore("ramp", MaxOuter) + 1
    /\ tries > 1
    /\ success

-----------------------------------------------------------------------------
(* Properties of add_custom_provider and delete_custom_provider            *)

\* A driver call that creates a provider: the click on the New-provider
\* link, a text typed into a field, the click on Save.
Creates(c) ==
    \/ c.m = "send_keys"
    \/ c.m = "click" /\ c.on \in {"new_provider_link", "provider_save"}

\* add_custom_provider is at its pre-existence check and the lookup has
\* found a provider with the requested name.
FoundExisting ==
    /\ ctOp.name = "add_custom_provider"
    /\ Running
    /\ Cur.op = "fail_unless_none"
    /\ ctEnv[Cur.var] = Elem("provider", "lookup")

\* C22: when a provider with the requested name exists already,
\* add_custom_provider fails at its pre-existence check ("Found a provider
\* with that name already.") and has made, and makes, no call that creates
\* anything: no click on the New-provider link, no text typed, no click on
\* Save.
C22_ExistingProviderCreatesNothing ==
    [][ FoundExisting =>
          /\ Cur.arg.v = "Found a provider with that name already."
          /\ ctErr' = "AssertionError"
          /\ ctPc' = ctPc
          /\ ctFaults' = Append(ctFaults, Fault("AssertionError", ctPc))
          /\ \A i \in DOMAIN ctCalls' : ~Creates(ctCalls'[i])
      ]_vars

\* add_custom_provider has failed at the check, with the found provider in
\* its variable.
C22_Witness ==
    /\ ctOp.name = "add_custom_provider"
    /\ ctErr = "AssertionError"
    /\ Cur.op = "fail_unless_none"
    /\ Cur.arg.v = "Found a provider with that name already."
    /\ ctEnv["provider"] = Elem("provider", "lookup")
    /\ \E i \in DOMAIN ctCalls : ctCalls[i].m = "find_elements"

\* C23: add_custom_provider types the requested name (its provider_name
\* argument) into the Name field, and every lookup it makes, the final
\* verification included, is by that requested name.
C23_TypesAndVerifiesRequestedName ==
    ctOp.name = "add_custom_provider" =>
        \A i \in DOMAIN ctCalls :
            /\ (ctCalls[i].m = "send_keys" /\ ctCalls[i].on = "provider_name") =>
                   ctCalls[i].arg = CtArgs["provider_name"]
            /\ ctCalls[i].m = "find_elements" =>
                   ctCalls[i].arg = CtArgs["provider_name"]

\* delete_custom_provider has failed at its first check: no provider has
\* the given name.
NotLocated ==
    /\ ctOp.name = "delete_custom_provider"
    /\ ctErr = "AssertionError"
    /\ Cur.op = "fail_if_none"
    /\ Cur.var = "provider"

\* delete_custom_provider has returned.
Deleted ==
    /\ ctOp.name = "delete_custom_provider"
    /\ ctErr = "none"
    /\ ctPc = Len(Body(ctOp)) + 1

\* The clicks of the deletion itself: on the provider, on its Remove link,
\* on the Yes button.
DeleteClicks == {"provider", "remove_link", "yes_button"}

\* The calls select_content_provider makes.
SelectCalls == {"perform", "click", "get"}

\* C24 as stated: when no provider has the name, delete_custom_provider has
\* made no click at all when it fails.
C24_Original ==
    NotLocated => \A i \in DOMAIN ctCalls : ctCalls[i].m # "click"

\* C24, amended: when no provider has the name, delete_custom_provider fails
\* with the not-located failure having made none of the clicks of the
\* deletion (the click select_content_provider makes on the provider type
\* comes before the lookup); and it returns only when its last call is a
\* lookup by name that found no provider, made after the click on Yes and
\* the calls of the second select_content_provider.
C24_DeleteChecksBeforeAndAfter ==
    /\ NotLocated =>
          /\ Cur.arg.v = "Could not locate the provider."
          /\ \A i \in DOMAIN ctCalls :
                ~(ctCalls[i].m = "click" /\ ctCalls[i].on \in DeleteClicks)
    /\ Deleted =>
          /\ ctEnv["provider"] = None("provider", "lookup")
          /\ ctCalls[Len(ctCalls)].m = "find_elements"
          /\ \E y \in DOMAIN ctCalls :
                /\ ctCalls[y].m = "click" /\ ctCalls[y].on = "yes_button"
                /\ y < Len(ctCalls)
                /\ \A j \in (y + 1)..(Len(ctCalls) - 1) :
                      /\ ctCalls[j].m \in SelectCalls
                      /\ ctCalls[j].on \in {"select.hover", "select.provider", "driver"}

\* delete_custom_provider has returned after the three clicks of the
\* deletion and a last lookup that found nothing.
C24_Witness ==
    /\ Deleted
    /\ ctFaults = << >>
    /\ \E y \in DOMAIN ctCalls : ctCalls[y].m = "click" /\ ctCalls[y].on = "yes_button"
    /\ ctCalls[Len(ctCalls)].m = "find_elements"
    /\ ctEnv["provider"].t = "none"

-----------------------------------------------------------------------------
(* Properties of select_content_provider                                   *)

\* The step is a hover (perform) or a click inside the try of
\* select_content_provider that raises a NoSuchElementException.
HoverOrClickNotFound ==
    /\ Running
    /\ Cur.op \in {"perform", "click"}
    /\ Cur.left >= 0
    /\ Len(ctFaults') > Len(ctFaults)
    /\ ctFaults'[Len(ctFaults) + 1].exc = "NoSuchElementException"

\* C25: in select_content_provider, a NoSuchElementException of the hover or
\* of the click ends the operation with the named failure "Could not select
\* the '<type>' content type" (an AssertionError out of asserts.fail), and
\* the driver is not sent to a fallback URL.
C25_NoSuchElementIsNamedFailure ==
    [][ HoverOrClickNotFound =>
          /\ ctErr' = "AssertionError"
          /\ ctPc' = ctPc
          /\ \A i \in DOMAIN ctCalls' : i > Len(ctCalls) => ctCalls'[i].m # "get"
      ]_vars

-----------------------------------------------------------------------------
(* The command lines of GPGKey                                             *)

\* The flags of the executed command line that have the key.
FlagsOf(key) == {f \in gpgCall.command.tail : FlagKey(f) = key}

\* The values those flags carry.
ValuesOf(key) == {FlagValue(f) : f \in FlagsOf(key)}

\* C26: the command line of every call of list or exists carries
\* organization-id with the organization_id of the call, whatever
\* organization-id the caller's options hold; list adds per-page=10000
\* exactly when its options are None (otherwise the command line carries a
\* per-page only if the caller's options hold one), so that the command
\* line of exists carries none; the command line of exists carries
\* search=<field>:"<value>" exactly when a tuple_search was given.
C26_FlagsOfListAndExists ==
    gpgOp # "none" =>
        /\ gpgCall.command.sub = "list"
        /\ ValuesOf("organization-id") = {Decimal(gpgCall.organization_id)}
        /\ Cardinality(FlagsOf("organization-id")) = 1
        /\ IF gpgCall.options.none
           THEN ValuesOf("per-page") = {<<"1", "0", "0", "0", "0">>}
           ELSE ValuesOf("per-page") =
                    {Decimal(gpgCall.options.map[k]) :
                        k \in DOMAIN gpgCall.options.map \cap {"per-page"}}
        /\ gpgCall.options.none => gpgOp = "list"
        /\ gpgOp = "exists" =>
              /\ FlagsOf("per-page") = {}
              /\ IF gpgCall.tuple_search # <<>>
                 THEN ValuesOf("search") =
                          {<<gpgCall.tuple_search[1], ":\"",
                             gpgCall.tuple_search[2], "\"">>}
                 ELSE FlagsOf("search") = {}

\* list was called for organization 1 with options that hold
\* organization-id 2, and the command line carries organization-id 1.
C26_Witness ==
    /\ gpgOp = "list"
    /\ gpgCall.organization_id = 1
    /\ ~gpgCall.options.none
    /\ "organization-id" \in DOMAIN gpgCall.options.map
    /\ gpgCall.options.map["organization-id"] = 2
    /\ <<"--", "organization-id", "='", "1", "'">> \in gpgCall.command.tail
    /\ Len(gpgKeys) >= 1

-----------------------------------------------------------------------------
(* Properties of the RHEV storage configuration page                       *)

\* The step runs the page method of the RHEV storage configuration page.
StoragePageRuns ==
    /\ WzRunning
    /\ CreateBody[wzPc].page = "page_rhev_storage_configuration"
    /\ Len(wzPages') = Len(wzPages) + 1

\* What the wait for the data domain name field returned, in calls.
DomainWait(calls, found) ==
    \E i \in DOMAIN calls : calls[i] = Wait(locators("rhci.data_domain_name"), found)

\* The page method entered last was the one of the storage page, and it
\* returned with no click on Next.
StorageLeftUnadvanced ==
    /\ wzPages # << >>
    /\ wzPages[Len(wzPages)] = "page_rhev_storage_configuration"
    /\ wzErr = "none"
    /\ wzAdvanced[Len(wzAdvanced)] = 0

\* C27: on the RHEV storage configuration page Next is clicked if and only
\* if the data domain name field was found (no call of the page raising).
\* When the field is absent the page method returns straight after the
\* wait, with no click on Next and no storage field filled, and create goes
\* on with the page method that follows (CloudForms configuration, or the
\* Red Hat login), the wizard still showing the storage page.
C27_NextOnlyWithDataDomain ==
    [][ /\ StoragePageRuns =>
            /\ NextClicks(wzCalls') <= 1
            /\ NextClicks(wzCalls') = 1 => DomainWait(wzCalls', TRUE)
            /\ (wzErr' = "none" /\ DomainWait(wzCalls', TRUE)) =>
                    wzAdvanced'[Len(wzAdvanced')] = 1
            /\ DomainWait(wzCalls', FALSE) =>
                    /\ wzErr' = "none"
                    /\ wzPc' = wzPc + 1
                    /\ wzCalls'[Len(wzCalls')] =
                            Wait(locators("rhci.data_domain_name"), FALSE)
                    /\ \A i \in DOMAIN wzCalls' :
                            wzCalls'[i].m # "text_field_update"
                    /\ NextClicks(wzCalls') = 0
                    /\ wzAdvanced'[Len(wzAdvanced')] = 0
        /\ (StorageLeftUnadvanced /\ wzPages' # wzPages) =>
            /\ wzAdvanced[Len(wzAdvanced)] = 0 => DomainWait(wzCalls, FALSE)
            /\ wzPages'[Len(wzPages')] \in
                    {"page_cloudforms_configuration", "page_redhat_login"}
            /\ SubSeq(wzAdvanced', 1, Len(wzAdvanced)) = wzAdvanced
      ]_vars

\* The storage page was left without a click on Next, and the Red Hat login
\* page method has run after it and clicked Next.
C27_Witness ==
    /\ wzErr = "none"
    /\ Len(wzPages) >= 2
    /\ wzPages[Len(wzPages)] = "page_redhat_login"
    /\ wzPages[Len(wzPages) - 1] = "page_rhev_storage_configuration"
    /\ wzAdvanced[Len(wzPages) - 1] = 0
    /\ wzAdvanced[Len(wzPages)] = 1

=============================================================================
